---------------------------- MODULE Spec2Model ----------------------------
(***************************************************************************)
(* Model of the fuel-station query backend (backend/app.py) and of the     *)
(* offline index builder (scripts/otimizador_dados.py).                    *)
(*                                                                         *)
(* Units.  Coordinates are integers in 1e-5 degree, distances are integers *)
(* in metres, a rounded distance (round(dist, 2) of a value in km) is an   *)
(* integer in 1e-2 km, prices are integers in centavos.                    *)
(*                                                                         *)
(* Python values.  A dict is a function from its keys (strings) to values, *)
(* so that an absent key is a key that is not in DOMAIN.  A value of a     *)
(* field that may hold several Python types is tagged:                     *)
(*   [py |-> "float", v |-> 450]    4.50                                   *)
(*   [py |-> "NoneType"]            None                                   *)
(*   [py |-> "str", s |-> "N/A"]    'N/A'                                  *)
(***************************************************************************)
EXTENDS Integers, Sequences, FiniteSets, TLC

(***************************************************************************)
(* Bounds of the model.                                                    *)
(***************************************************************************)
\* the largest number of records of a snapshot
MaxPostos == 3
\* the largest number of keys of a filter dict
MaxFiltros == 2
\* the largest number of points of a batch
MaxPontos == 2
\* the largest number of records of a snapshot a batch runs on
MaxPostosLote == 2
\* the number of builds the builder makes, the first one included
MaxBuilds == 2
\* the number of times the server loads the files, the first one included
MaxCargas == 2
\* the largest number of scraped records of a list to consolidate
MaxColetados == 3
\* the records of one input of validar_dados
MaxBrutos == 3

(***************************************************************************)
(* Python values and helpers.                                              *)
(***************************************************************************)
PyFloat(x) == [py |-> "float", v |-> x]
PyNone == [py |-> "NoneType"]
PyStr(x) == [py |-> "str", s |-> x]
PyInt(x) == [py |-> "int", v |-> x]

\* dict.get(k, d)
Get(dict, k, d) == IF k \in DOMAIN dict THEN dict[k] ELSE d

\* d[k] = v on a dict (the key is added when absent)
SetItem(dict, k, v) == [x \in (DOMAIN dict) \cup {k} |-> IF x = k THEN v ELSE dict[x]]

\* seq[:n] with Python's slice semantics (a negative n counts from the end)
Slice(seq, n) ==
    LET stop == IF n >= 0 THEN (IF n < Len(seq) THEN n ELSE Len(seq))
                ELSE (IF Len(seq) + n > 0 THEN Len(seq) + n ELSE 0)
    IN  SubSeq(seq, 1, stop)

Abs(x) == IF x >= 0 THEN x ELSE -x

\* int(x / c) for c > 0: Python's int() truncates toward zero
TruncDiv(x, c) == IF x >= 0 THEN x \div c ELSE -((-x) \div c)

\* the elements of seq that satisfy Test, in order
RECURSIVE SelectSeqIdx(_, _, _)
SelectSeqIdx(seq, keep, i) ==
    IF i > Len(seq) THEN <<>>
    ELSE (IF i \in keep THEN <<seq[i]>> ELSE <<>>) \o SelectSeqIdx(seq, keep, i + 1)

\* list.sort(key=...) / sorted(): a stable sort of seq by the integer key
\* Key[i] of its i-th element (insertion sort: inserts after equal keys)
RECURSIVE InsertStable(_, _, _)
InsertStable(sorted, e, key) ==
    IF sorted = <<>> THEN <<e>>
    ELSE IF key[Head(sorted)] <= key[e]
         THEN <<Head(sorted)>> \o InsertStable(Tail(sorted), e, key)
         ELSE <<e>> \o sorted

RECURSIVE StableSortIdx(_, _)
\* the indices 1..n in the order a stable sort by key puts them
StableSortIdx(n, key) ==
    IF n = 0 THEN <<>> ELSE InsertStable(StableSortIdx(n - 1, key), n, key)


\* str.upper() on the state codes the model uses
Upper(x) ==
    CASE x = "sp" -> "SP"
      [] x = "rj" -> "RJ"
      [] OTHER -> x

(***************************************************************************)
(* Geometry.                                                               *)
(***************************************************************************)
\* calcular_distancia evaluated at the coordinates the model uses: the key
\* is <<lat1, lon1, lat2, lon2>> in 1e-5 degree, the value is the haversine
\* distance 6371 * c in metres (truncated).  No value lies within a metre of
\* a radius the model queries with, nor within a metre of a rounding tie.
Haversine ==
    (<<-2355000, -4663000, -2354097, -4663000>> :> 1004) @@
    (<<-2355000, -4663000, -2355000, -4663982>> :> 1000) @@
    (<<-2355000, -4663000, -2352000, -4665000>> :> 3909) @@
    (<<-2355000, -4663000, -2351000, -4658500>> :> 6389) @@
    (<<-2355000, -4663000, -2345000, -4663000>> :> 11119) @@
    (<<-2353000, -4663000, -2354097, -4663000>> :> 1219) @@
    (<<-2353000, -4663000, -2355000, -4663982>> :> 2438) @@
    (<<-2353000, -4663000, -2352000, -4665000>> :> 2322) @@
    (<<-2353000, -4663000, -2351000, -4658500>> :> 5098) @@
    (<<-2353000, -4663000, -2345000, -4663000>> :> 8895) @@
    (<<-3003000, -5123000, -3003000, -4968000>> :> 149215) @@
    (<<-3003000, -5123000, -3005000, -5120000>> :> 3644) @@
    (<<-3003000, -5123000, -3050000, -5160000>> :> 63197) @@
    (<<-3003000, -5123000, -3003000, -5279000>> :> 150177) @@
    (<<-3003000, -5128000, -3003000, -4968000>> :> 154028) @@
    (<<-3003000, -5128000, -3005000, -5120000>> :> 8015) @@
    (<<-3003000, -5128000, -3050000, -5160000>> :> 60628) @@
    (<<-3003000, -5128000, -3003000, -5279000>> :> 145364)

calcular_distancia(lat1, lon1, lat2, lon2) == Haversine[<<lat1, lon1, lat2, lon2>>]

\* 1000 * math.cos(math.radians(lat)) at the latitudes the model queries from
Cos1000(lat) ==
    CASE lat = -2355000 -> 917
      [] lat = -2353000 -> 917
      [] lat = -3003000 -> 866

\* round(dist, 2) of a distance in km: metres to 1e-2 km
Round2(dist) == (dist + 5) \div 10

\* the query points of the model: [lat, lon]
PontosConsulta ==
    { [lat |-> -2355000, lon |-> -4663000],
      [lat |-> -2353000, lon |-> -4663000] }

\* the radii (km) and the limits the model queries with
Raios == {2, 5}
Limites == {1, 3}

(***************************************************************************)
(* Station records, as validar_dados leaves them (the fields the queries   *)
(* read).  An id is a Python value: validar_dados keeps the id a record   *)
(* carries, whatever its type.                                             *)
(***************************************************************************)
Posto(id, nome, endereco, bairro, bandeira, cidade, estado, lat, lon, gas, alc, die) ==
    [id |-> PyStr(id), nome |-> nome, endereco |-> endereco, bairro |-> bairro,
     bandeira |-> bandeira, cidade |-> cidade,
     estado |-> estado, latitude |-> lat, longitude |-> lon,
     preco_gasolina |-> gas, preco_alcool |-> alc, preco_diesel |-> die]

\* the records snapshots are made of
Catalogo ==
    << Posto("p1", "Posto Sol", "", "", "Shell", "Sao Paulo", "SP", -2354097, -4663000,
             PyFloat(450), PyFloat(300), PyFloat(400)),
       Posto("p2", "Posto Lua", "Rua do Sol 10", "", "Ipiranga", "Sao Paulo", "SP", -2355000, -4663982,
             PyFloat(500), PyFloat(350), PyNone),
       Posto("p3", "Auto Posto Mar", "", "Centro", "Shell", "Osasco", "RJ", -2352000, -4665000,
             PyFloat(550), PyNone, PyFloat(380)),
       Posto("p4", "Posto Rio", "", "", "Shell", "Sao Paulo", "SP", -2351000, -4658500,
             PyNone, PyFloat(290), PyFloat(420)),
       Posto("p5", "Posto Norte", "", "", "Ipiranga", "Osasco", "SP", -2345000, -4663000,
             PyStr("N/A"), PyStr(""), PyFloat(390)) >>

\* the sequences of at most n distinct elements of S
SeqsDistintas(S, n) ==
    { s \in UNION { [1..k -> S] : k \in 0..n } :
        \A i, j \in DOMAIN s : i # j => s[i] # s[j] }

Range(seq) == { seq[i] : i \in DOMAIN seq }

(***************************************************************************)
(* The offline build (OtimizadorDados): the files one build writes, each   *)
(* tagged with the number of the build that wrote it (build 0: no file,    *)
(* which the loaders turn into None).                                      *)
(***************************************************************************)
\* criar_grid_index(tamanho_celula=0.1): 0.1 degree
TamanhoCelula == 10000

\* the grid key f"{lat_idx}_{lon_idx}" of a coordinate
GridKey(lat, lon, tamanho_celula) ==
    <<TruncDiv(lat, tamanho_celula), TruncDiv(lon, tamanho_celula)>>

\* the last record of postos whose field campo is v
UltimoCom(postos, campo, v) ==
    postos[CHOOSE i \in DOMAIN postos :
             /\ postos[i][campo] = v
             /\ \A j \in DOMAIN postos : postos[j][campo] = v => j <= i]

\* the ids of the records of postos whose field campo is v, in order
IdsCom(postos, campo, v) ==
    LET keep == { i \in DOMAIN postos : postos[i][campo] = v }
    IN  [ k \in 1..Cardinality(keep) |->
            postos[CHOOSE i \in keep : Cardinality({ j \in keep : j <= i }) = k].id ]

\* {v: [ids]} grouped by the field campo
PorCampo(postos, campo) ==
    [ v \in { postos[i][campo] : i \in DOMAIN postos } |-> IdsCom(postos, campo, v) ]

\* the key json.dump writes for a dict key: the keys of a JSON object are
\* strings, an int key is written as its decimal digits
ChaveJson(k) ==
    CASE k.py = "str" -> k
      [] k.py = "int" -> PyStr(ToString(k.v))

\* the dict {posto['id']: posto for posto in postos} as json.dump writes it
\* and json.load reads it back: the dict keeps its keys in the order of
\* their first insertion, each with the last record of that id; of the
\* keys that are written as the same string the last one written stays
PostosPorIdNoJson(postos) ==
    LET ids == { postos[i].id : i \in DOMAIN postos }
        PrimeiraPos(id) ==
            CHOOSE i \in DOMAIN postos :
                /\ postos[i].id = id
                /\ \A j \in DOMAIN postos : postos[j].id = id => i <= j
        Escritos(k) == { id \in ids : ChaveJson(id) = k }
        Fica(k) ==
            CHOOSE id \in Escritos(k) :
                \A outro \in Escritos(k) : PrimeiraPos(outro) <= PrimeiraPos(id)
    IN  [ k \in { ChaveJson(id) : id \in ids } |-> UltimoCom(postos, "id", Fica(k)) ]

\* otimizar_json: the optimized JSON, as the file holds it
otimizar_json(b, postos) ==
    [ build |-> b,
      postos |-> postos,
      postos_por_id |-> PostosPorIdNoJson(postos),
      postos_por_estado |-> PorCampo(postos, "estado"),
      postos_por_cidade |-> PorCampo(postos, "cidade"),
      postos_por_bandeira |-> PorCampo(postos, "bandeira"),
      metadata |-> [ total_postos |-> Len(postos) ] ]

\* criar_rtree_index: entry i is the point of the i-th record, tagged with
\* its id.  The entries are kept in insertion order, the order in which a
\* tree of one leaf hands them out.
criar_rtree_index(b, postos) ==
    [ build |-> b,
      entradas |-> [ i \in DOMAIN postos |->
                       [ lon |-> postos[i].longitude, lat |-> postos[i].latitude,
                         object |-> postos[i].id ] ] ]

\* criar_grid_index
criar_grid_index(b, postos, tamanho_celula) ==
    LET key(i) == GridKey(postos[i].latitude, postos[i].longitude, tamanho_celula)
        porCelula == [ i \in DOMAIN postos |-> [ id |-> postos[i].id, celula |-> key(i) ] ]
    IN  [ build |-> b,
          grid |-> PorCampo(porCelula, "celula"),
          tamanho_celula |-> tamanho_celula,
          postos_ids |->
              [ id \in { postos[i].id : i \in DOMAIN postos } |->
                  LET p == UltimoCom(postos, "id", id) IN <<p.latitude, p.longitude>> ] ]

\* criar_kd_tree
criar_kd_tree(b, postos) ==
    [ build |-> b,
      coords |-> [ i \in DOMAIN postos |-> <<postos[i].latitude, postos[i].longitude>> ],
      ids |-> [ i \in DOMAIN postos |-> postos[i].id ] ]

\* None, as a component of the cache
Nada == [ build |-> 0 ]

\* carregar_dados_json: json.load makes new dicts at every load, so the
\* loaded object carries the number of the load that made it; a file that
\* is not there is None
carregar_dados_json(arquivo, carga) ==
    IF arquivo.build = 0 THEN Nada
    ELSE [ build |-> arquivo.build, carga |-> carga, postos |-> arquivo.postos,
           postos_por_id |-> arquivo.postos_por_id,
           postos_por_estado |-> arquivo.postos_por_estado,
           postos_por_cidade |-> arquivo.postos_por_cidade,
           postos_por_bandeira |-> arquivo.postos_por_bandeira,
           metadata |-> arquivo.metadata ]

\* the files build b of the records postos leaves on disk
ArquivosDe(b, postos) ==
    [ json |-> otimizar_json(b, postos),
      rtree |-> criar_rtree_index(b, postos),
      grid |-> criar_grid_index(b, postos, TamanhoCelula),
      kd |-> criar_kd_tree(b, postos) ]

\* the cache after inicializar_cache loaded, with no query running, the
\* files of one build b of the records postos
CacheDe(b, postos) ==
    [ dados_json |-> carregar_dados_json(otimizar_json(b, postos), 1),
      rtree_index |-> criar_rtree_index(b, postos),
      grid_index |-> criar_grid_index(b, postos, TamanhoCelula),
      kd_tree_data |-> criar_kd_tree(b, postos),
      total_postos |-> Len(postos) ]

(***************************************************************************)
(* The radius queries of backend/app.py, as functions of the cache.  A     *)
(* query hands back the list of the dicts of postos_por_id it kept (a list *)
(* of references: here, of ids) and leaves its writes in those dicts.      *)
(***************************************************************************)
\* ceil(a / b) for a >= 0, b > 0
CeilDiv(a, b) == (a + b - 1) \div b

\* whether the point of an R-tree entry lies in the bounding box
\* (lon - raio_lon, lat - raio_lat, lon + raio_lon, lat + raio_lat), with
\* raio_lat = raio_km / 111.0 and raio_lon = raio_km / (111.0 * cos(lat))
NoBBox(e, lat, lon, raio_km) ==
    /\ Abs(e.lat - lat) * 111 <= raio_km * 100000
    /\ CeilDiv(Abs(e.lon - lon) * 111 * Cos1000(lat), 1000) <= raio_km * 100000

\* list(rtree_index.intersection(bbox, objects=True))
Intersecao(rtree_index, lat, lon, raio_km) ==
    LET Dentro(e) == NoBBox(e, lat, lon, raio_km)
    IN  SelectSeq(rtree_index.entradas, Dentro)

\* the body of the loops that resolve a candidate id: the record is looked
\* up in postos_por_id and, when within the radius, gets its rounded
\* distance written into it and is appended to the list
ManterSeProximo(posto_id, dist, raio_km, por_id, lista) ==
    IF posto_id \in DOMAIN por_id /\ dist <= raio_km * 1000
    THEN [ por_id |-> [ por_id EXCEPT ![posto_id] = SetItem(@, "distancia", Round2(dist)) ],
           lista |-> Append(lista, posto_id) ]
    ELSE [ por_id |-> por_id, lista |-> lista ]

\* one turn of the loop of buscar_postos_proximidade_rtree over an item
PassoRtree(item, lat, lon, raio_km, por_id, lista) ==
    IF item.object \notin DOMAIN por_id
    THEN [ por_id |-> por_id, lista |-> lista ]
    ELSE ManterSeProximo(item.object,
                         calcular_distancia(lat, lon, por_id[item.object].latitude,
                                            por_id[item.object].longitude),
                         raio_km, por_id, lista)

RECURSIVE LacoRtree(_, _, _, _, _, _)
LacoRtree(itens, lat, lon, raio_km, por_id, lista) ==
    IF itens = <<>> THEN [ por_id |-> por_id, lista |-> lista ]
    ELSE LET r == PassoRtree(Head(itens), lat, lon, raio_km, por_id, lista)
         IN  LacoRtree(Tail(itens), lat, lon, raio_km, r.por_id, r.lista)

\* lista.sort(key=lambda x: x['distancia']): the keys are read from the
\* dicts the list refers to
OrdenarPorDistancia(lista, por_id) ==
    LET key == [ i \in DOMAIN lista |-> por_id[lista[i]].distancia ]
        ordem == StableSortIdx(Len(lista), key)
    IN  [ k \in DOMAIN lista |-> lista[ordem[k]] ]

\* what a caller reads in a list of references
Valores(lista, por_id) == [ k \in DOMAIN lista |-> por_id[lista[k]] ]

\* buscar_postos_proximidade_rtree(lat, lon, raio_km, limite) run alone on
\* the cache c: [erro, lista, cache].  With a negative radius the bounding
\* box has its minimums above its maximums, which intersection() refuses.
buscar_postos_proximidade_rtree(c, lat, lon, raio_km, limite) ==
    IF c.rtree_index.build = 0
    THEN [ erro |-> "", lista |-> <<>>, cache |-> c ]
    ELSE IF raio_km < 0
    THEN [ erro |-> "RTreeError", lista |-> <<>>, cache |-> c ]
    ELSE LET ids_proximos == Slice(Intersecao(c.rtree_index, lat, lon, raio_km), limite)
         IN  IF ids_proximos # <<>> /\ c.dados_json.build = 0
             THEN [ erro |-> "TypeError", lista |-> <<>>, cache |-> c ]
             ELSE IF ids_proximos = <<>>
             THEN [ erro |-> "", lista |-> <<>>, cache |-> c ]
             ELSE LET r == LacoRtree(ids_proximos, lat, lon, raio_km,
                                     c.dados_json.postos_por_id, <<>>)
                  IN  [ erro |-> "",
                        lista |-> OrdenarPorDistancia(r.lista, r.por_id),
                        cache |-> [ c EXCEPT !.dados_json.postos_por_id = r.por_id ] ]

\* the grid keys buscar_postos_proximidade_grid visits, in the order of its
\* two nested loops
CelulasVisitadas(lat, lon, raio_km, tamanho_celula) ==
    LET central == GridKey(lat, lon, tamanho_celula)
        num_celulas == CeilDiv(raio_km * 100000, 111 * tamanho_celula) + 1
        lado == 2 * num_celulas + 1
    IN  [ k \in 1..(lado * lado) |->
            << central[1] - num_celulas + ((k - 1) \div lado),
               central[2] - num_celulas + ((k - 1) % lado) >> ]

\* the ids of the cells of the grid, in the order the loops meet them
RECURSIVE IdsDasCelulasDoGrid(_, _)
IdsDasCelulasDoGrid(celulas, grid) ==
    IF celulas = <<>> THEN <<>>
    ELSE grid[Head(celulas)] \o IdsDasCelulasDoGrid(Tail(celulas), grid)

\* the ids of the visited cells, in the order the loops meet them: a key
\* that is not in the grid contributes nothing
IdsDasCelulas(celulas, grid) ==
    IdsDasCelulasDoGrid(SelectSeq(celulas, LAMBDA chave_celula : chave_celula \in DOMAIN grid),
                        grid)

\* one turn of the inner loop of buscar_postos_proximidade_grid over an id
PassoGrid(posto_id, lat, lon, raio_km, postos_ids, por_id, lista) ==
    LET coord == Get(postos_ids, posto_id, <<0, 0>>)
    IN  ManterSeProximo(posto_id, calcular_distancia(lat, lon, coord[1], coord[2]),
                        raio_km, por_id, lista)

RECURSIVE LacoGrid(_, _, _, _, _, _, _)
LacoGrid(ids, lat, lon, raio_km, postos_ids, por_id, lista) ==
    IF ids = <<>> THEN [ por_id |-> por_id, lista |-> lista ]
    ELSE LET r == PassoGrid(Head(ids), lat, lon, raio_km, postos_ids, por_id, lista)
         IN  LacoGrid(Tail(ids), lat, lon, raio_km, postos_ids, r.por_id, r.lista)

\* buscar_postos_proximidade_grid(lat, lon, raio_km, limite) run alone on
\* the cache c: [erro, lista, cache]
buscar_postos_proximidade_grid(c, lat, lon, raio_km, limite) ==
    IF c.grid_index.build = 0
    THEN [ erro |-> "", lista |-> <<>>, cache |-> c ]
    ELSE LET ids == IdsDasCelulas(CelulasVisitadas(lat, lon, raio_km,
                                                   c.grid_index.tamanho_celula),
                                  c.grid_index.grid)
             dentro == { i \in DOMAIN ids :
                           LET coord == Get(c.grid_index.postos_ids, ids[i], <<0, 0>>)
                           IN  calcular_distancia(lat, lon, coord[1], coord[2])
                                 <= raio_km * 1000 }
         IN  IF dentro # {} /\ c.dados_json.build = 0
             THEN [ erro |-> "TypeError", lista |-> <<>>, cache |-> c ]
             ELSE IF dentro = {}
             THEN [ erro |-> "", lista |-> <<>>, cache |-> c ]
             ELSE LET r == LacoGrid(ids, lat, lon, raio_km, c.grid_index.postos_ids,
                                    c.dados_json.postos_por_id, <<>>)
                  IN  [ erro |-> "",
                        lista |-> Slice(OrdenarPorDistancia(r.lista, r.por_id), limite),
                        cache |-> [ c EXCEPT !.dados_json.postos_por_id = r.por_id ] ]

(***************************************************************************)
(* The attribute query of backend/app.py.  A filter dict maps the keys a   *)
(* caller gave to their values (a key the route passes as None is an       *)
(* absent key here: the code treats both alike); a maximum price is the    *)
(* number float() reads from its string, in centavos.                      *)
(***************************************************************************)
\* the exception float(x) raises ("" when it raises none)
ErroFloat(x) ==
    CASE x.py = "float" -> ""
      [] x.py = "NoneType" -> "TypeError"
      [] x.py = "str" -> "ValueError"

\* the exception the first element of seq whose float() fails raises
RECURSIVE PrimeiroErro(_)
PrimeiroErro(seq) ==
    IF seq = <<>> THEN ""
    ELSE IF ErroFloat(Head(seq)) # "" THEN ErroFloat(Head(seq))
    ELSE PrimeiroErro(Tail(seq))

\* `'k' in filtros and filtros['k']` for a text filter
Fornecido(filtros, k) == k \in DOMAIN filtros /\ filtros[k] # ""

\* [p for p in lista if p['id'] in indice.get(chave, [])] as a step of the
\* query r = [erro, lista, nova]
FiltrarPorIndice(r, indice, chave) ==
    LET ids == Range(Get(indice, chave, <<>>))
        Manter(p) == p.id \in ids
    IN  [ erro |-> "", lista |-> SelectSeq(r.lista, Manter), nova |-> TRUE ]

\* [p for p in lista if p.get(campo) is not None and float(p[campo]) <= preco_max]
FiltrarPorPreco(r, campo, preco_max) ==
    LET NaoNone(p) == Get(p, campo, PyNone).py # "NoneType"
        comPreco == SelectSeq(r.lista, NaoNone)
        erro == PrimeiroErro([ i \in DOMAIN comPreco |-> comPreco[i][campo] ])
        Manter(p) == p[campo].v <= preco_max
    IN  IF erro # "" THEN [ erro |-> erro, lista |-> <<>>, nova |-> TRUE ]
        ELSE [ erro |-> "", lista |-> SelectSeq(comPreco, Manter), nova |-> TRUE ]

\* lista.sort(key=lambda x: float(x.get(campo, 999999)))
OrdenarPorPreco(r, campo) ==
    LET valores == [ i \in DOMAIN r.lista |-> Get(r.lista[i], campo, PyFloat(99999900)) ]
        erro == PrimeiroErro(valores)
        key == [ i \in DOMAIN r.lista |-> valores[i].v ]
        ordem == StableSortIdx(Len(r.lista), key)
    IN  IF erro # "" THEN [ erro |-> erro, lista |-> r.lista, nova |-> r.nova ]
        ELSE [ erro |-> "", lista |-> [ k \in DOMAIN r.lista |-> r.lista[ordem[k]] ],
               nova |-> r.nova ]

\* a step of the query that runs only when no earlier step raised
Se(cond, r, passo) == IF r.erro = "" /\ cond THEN passo ELSE r

\* buscar_postos_filtros(filtros, limite) run alone on the cache c:
\* [erro, valor, cache].  `nova` tells whether postos_filtrados is a new
\* list or still the list cache['dados_json']['postos'] itself.
buscar_postos_filtros(c, filtros, limite) ==
    IF c.dados_json.build = 0 THEN [ erro |-> "", valor |-> <<>>, cache |-> c ]
    ELSE
    LET d == c.dados_json
        r0 == [ erro |-> "", lista |-> d.postos, nova |-> FALSE ]
        r1 == Se(Fornecido(filtros, "estado"), r0,
                 FiltrarPorIndice(r0, d.postos_por_estado, Upper(filtros.estado)))
        r2 == Se(Fornecido(filtros, "cidade"), r1,
                 FiltrarPorIndice(r1, d.postos_por_cidade, filtros.cidade))
        r3 == Se(Fornecido(filtros, "bandeira"), r2,
                 FiltrarPorIndice(r2, d.postos_por_bandeira, filtros.bandeira))
        r4 == Se("preco_max_gasolina" \in DOMAIN filtros, r3,
                 FiltrarPorPreco(r3, "preco_gasolina", filtros.preco_max_gasolina))
        r5 == Se("preco_max_alcool" \in DOMAIN filtros, r4,
                 FiltrarPorPreco(r4, "preco_alcool", filtros.preco_max_alcool))
        r6 == Se("preco_max_diesel" \in DOMAIN filtros, r5,
                 FiltrarPorPreco(r5, "preco_diesel", filtros.preco_max_diesel))
        r7 == Se("ordenar_por" \in DOMAIN filtros
                   /\ filtros.ordenar_por \in {"preco_gasolina", "preco_alcool", "preco_diesel"},
                 r6, OrdenarPorPreco(r6, filtros.ordenar_por))
    IN  IF r7.erro # "" THEN [ erro |-> r7.erro, valor |-> <<>>, cache |-> c ]
        ELSE [ erro |-> "",
               valor |-> Slice(r7.lista, limite),
               cache |-> IF r7.nova THEN c
                         ELSE [ c EXCEPT !.dados_json.postos = r7.lista ] ]

\* the keys a caller of buscar_postos_filtros may give, with the value of each
OpcaoChave ==
    << "estado", "cidade", "bandeira", "preco_max_gasolina", "preco_max_alcool",
       "preco_max_diesel", "ordenar_por", "ordenar_por", "ordenar_por" >>
OpcaoValor ==
    << "sp", "Osasco", "Shell", 500, 320, 400,
       "preco_gasolina", "preco_alcool", "preco_diesel" >>

\* the filter dicts the model calls buscar_postos_filtros with: at most
\* MaxFiltros of the keys above
FiltrosEntrada ==
    { [ k \in { OpcaoChave[i] : i \in I } |->
          OpcaoValor[CHOOSE i \in I : OpcaoChave[i] = k] ] :
      I \in { J \in SUBSET DOMAIN OpcaoChave :
                /\ Cardinality(J) <= MaxFiltros
                /\ \A i, j \in J : i # j => OpcaoChave[i] # OpcaoChave[j] } }

(***************************************************************************)
(* The text search of backend/app.py (api_postos_busca).                   *)
(***************************************************************************)
\* str.lower() on the texts the model uses
Lower(x) ==
    CASE x = "Posto" -> "posto"
      [] x = "SOL" -> "sol"
      [] x = "POST" -> "post"
      [] x = "Centro" -> "centro"
      [] OTHER -> x

\* `texto in s.lower()` for the lower-case texts the model searches and
\* the strings of the catalogue: the pairs <<texto, s>> for which it holds
Contidas ==
    { <<"posto", "Posto Sol">>, <<"posto", "Posto Lua">>, <<"posto", "Auto Posto Mar">>,
      <<"posto", "Posto Rio">>, <<"posto", "Posto Norte">>,
      <<"sol", "Posto Sol">>, <<"sol", "Rua do Sol 10">>,
      <<"osasco", "Osasco">>, <<"centro", "Centro">> }

\* the test of lines 633-636 on a record
CasaComTexto(posto, texto) ==
    \/ <<texto, Get(posto, "nome", "")>> \in Contidas
    \/ <<texto, Get(posto, "endereco", "")>> \in Contidas
    \/ <<texto, Get(posto, "bairro", "")>> \in Contidas
    \/ <<texto, Get(posto, "cidade", "")>> \in Contidas

\* the loop of lines 632-641: a match is appended, then the length is
\* compared with limite
RECURSIVE LacoBusca(_, _, _, _)
LacoBusca(postos, texto, limite, postos_encontrados) ==
    IF postos = <<>> THEN postos_encontrados
    ELSE IF CasaComTexto(Head(postos), texto)
         THEN LET mais == Append(postos_encontrados, Head(postos))
              IN  IF Len(mais) >= limite THEN mais
                  ELSE LacoBusca(Tail(postos), texto, limite, mais)
         ELSE LacoBusca(Tail(postos), texto, limite, postos_encontrados)

\* api_postos_busca with q and limite on the cache c: [erro, valor], erro
\* being the status of an error response
api_postos_busca(c, q, limite) ==
    LET texto == Lower(q)
        lim == IF limite < 100 THEN limite ELSE 100
    IN  IF texto = "" THEN [ erro |-> "400", valor |-> <<>> ]
        ELSE IF c.dados_json.build = 0 THEN [ erro |-> "500", valor |-> <<>> ]
        ELSE [ erro |-> "", valor |-> LacoBusca(c.dados_json.postos, texto, lim, <<>>) ]

\* the query texts and the limits the model searches with
TextosDeBusca == { "Posto", "SOL", "osasco", "Centro", "" }
LimitesDeBusca == { 0, 1, 3 }

(***************************************************************************)
(* State.                                                                  *)
(***************************************************************************)
VARIABLES
    cache,       \* the global cache of backend/app.py (ultima_atualizacao left out)
    antigos,     \* the dados_json objects the cache held before, by load number:
                 \* a list a query built may still refer to their dicts
    tarefas,     \* the calls of buscar_postos_proximidade_rtree under way, by number
    lote,        \* the call of buscar_postos_lote under way
    disco,       \* the *_latest files the server loads
    construtor,  \* criar_links_mais_recentes under way
    carregador,  \* inicializar_cache under way
    ret          \* the last call a client made and what it got back

vars == <<cache, antigos, tarefas, lote, disco, construtor, carregador, ret>>

\* the snapshots the server may have loaded: the builds of at most
\* MaxPostos records of the catalogue, in any order
Snapshots == SeqsDistintas(Range(Catalogo), MaxPostos)

SemChamada == [ op |-> "nenhuma" ]
SemTarefas == <<>>
SemAntigos == <<>>
SemLote == [ pc |-> "parado" ]
ConstrutorParado == [ pc |-> "parado", build |-> 1, fila |-> <<>> ]
CarregadorParado == [ pc |-> "parado", cargas |-> 1 ]

\* the server has loaded the files of build 1 and no call is under way
Servindo(postos) ==
    /\ cache = CacheDe(1, postos)
    /\ disco = ArquivosDe(1, postos)
    /\ antigos = SemAntigos
    /\ tarefas = SemTarefas
    /\ lote = SemLote
    /\ construtor = ConstrutorParado
    /\ carregador = CarregadorParado
    /\ ret = SemChamada

Init == \E postos \in Snapshots : Servindo(postos)

(***************************************************************************)
(* The handlers, each run alone from its call to its return: a client      *)
(* calls one when no answer is on its way, and gets the answer before the  *)
(* next call.                                                              *)
(***************************************************************************)
\* a client calls buscar_postos_proximidade_rtree
ConsultaRtree ==
    /\ ret.op = "nenhuma"
    /\ UNCHANGED <<antigos, tarefas, lote, disco, construtor, carregador>>
    /\ \E p \in PontosConsulta, raio_km \in Raios, limite \in Limites :
        LET r == buscar_postos_proximidade_rtree(cache, p.lat, p.lon, raio_km, limite)
        IN  /\ cache' = r.cache
            /\ ret' = [ op |-> "rtree", lat |-> p.lat, lon |-> p.lon,
                        raio_km |-> raio_km, limite |-> limite, erro |-> r.erro,
                        valor |-> Valores(r.lista, r.cache.dados_json.postos_por_id) ]

\* a client calls buscar_postos_proximidade_grid
ConsultaGrid ==
    /\ ret.op = "nenhuma"
    /\ UNCHANGED <<antigos, tarefas, lote, disco, construtor, carregador>>
    /\ \E p \in PontosConsulta, raio_km \in Raios, limite \in Limites :
        LET r == buscar_postos_proximidade_grid(cache, p.lat, p.lon, raio_km, limite)
        IN  /\ cache' = r.cache
            /\ ret' = [ op |-> "grid", lat |-> p.lat, lon |-> p.lon,
                        raio_km |-> raio_km, limite |-> limite, erro |-> r.erro,
                        valor |-> Valores(r.lista, r.cache.dados_json.postos_por_id) ]

\* a client calls buscar_postos_filtros
ConsultaFiltros ==
    /\ ret.op = "nenhuma"
    /\ UNCHANGED <<antigos, tarefas, lote, disco, construtor, carregador>>
    /\ \E filtros \in FiltrosEntrada, limite \in Limites :
        LET r == buscar_postos_filtros(cache, filtros, limite)
        IN  /\ cache' = r.cache
            /\ ret' = [ op |-> "filtros", filtros |-> filtros, limite |-> limite,
                        erro |-> r.erro, valor |-> r.valor ]

\* a client calls /api/postos/busca
ConsultaBusca ==
    /\ ret.op = "nenhuma"
    /\ UNCHANGED <<cache, antigos, tarefas, lote, disco, construtor, carregador>>
    /\ \E q \in TextosDeBusca, limite \in LimitesDeBusca :
        LET r == api_postos_busca(cache, q, limite)
        IN  ret' = [ op |-> "busca", q |-> q, limite |-> limite,
                     erro |-> r.erro, valor |-> r.valor ]

\* the client has read the answer
Entregar ==
    /\ ret.op # "nenhuma"
    /\ ret' = SemChamada
    /\ UNCHANGED <<cache, antigos, tarefas, lote, disco, construtor, carregador>>

Next ==
    \/ ConsultaRtree
    \/ ConsultaGrid
    \/ ConsultaFiltros
    \/ ConsultaBusca
    \/ Entregar

Spec == Init /\ [][Next]_vars

(***************************************************************************)
(* buscar_postos_proximidade_rtree run by a thread, in steps: the read of  *)
(* the index (lines 179-196), one turn of the loop per step (lines         *)
(* 200-208, each of which reads cache['dados_json'] again), the sort       *)
(* (line 211).  A list of kept records is a list of references: an entry   *)
(* names the dict by the load of the dados_json object it belongs to and   *)
(* by its id.  A task also notes what it read from the cache: the builds   *)
(* of the index and of the dados_json objects, and the build that was      *)
(* active when it was called.                                              *)
(***************************************************************************)
\* whether all the components of a cache come from one build
CacheCoerente(c) ==
    /\ c.rtree_index.build = c.dados_json.build
    /\ c.grid_index.build = c.dados_json.build
    /\ c.kd_tree_data.build = c.dados_json.build
    /\ c.dados_json.build # 0 => c.total_postos = Len(c.dados_json.postos)

\* the dict an entry of a list refers to
Deref(e) ==
    IF "carga" \in DOMAIN cache.dados_json /\ cache.dados_json.carga = e.carga
    THEN cache.dados_json.postos_por_id[e.id]
    ELSE antigos[e.carga].postos_por_id[e.id]

\* what a caller reads in a list of references
ValoresDe(lista) == [ k \in DOMAIN lista |-> Deref(lista[k]) ]

\* the call buscar_postos_proximidade_rtree(lat, lon, raio_km, limite), not
\* yet started; lat and lon are Python values
NovaTarefa(lat, lon, raio_km, limite) ==
    [ pc |-> "inicio", lat |-> lat, lon |-> lon, raio_km |-> raio_km,
      limite |-> limite, itens |-> <<>>, lista |-> <<>>, erro |-> "",
      inicio |-> [ build |-> cache.dados_json.build,
                   estavel |-> carregador.pc = "parado" /\ CacheCoerente(cache) ],
      indices_vistos |-> {}, json_vistos |-> {} ]

\* lines 179-196: no index, no answer; a lat or lon that is not a number
\* makes the bounding-box arithmetic raise TypeError; else the candidates
\* of the box, cut to limite
TarefaInicia(k) ==
    /\ k \in DOMAIN tarefas
    /\ tarefas[k].pc = "inicio"
    /\ LET t == tarefas[k]
       IN  tarefas' = [ tarefas EXCEPT ![k] =
             IF cache.rtree_index.build = 0
             THEN [ t EXCEPT !.pc = "feito" ]
             ELSE IF t.lat.py # "float" \/ t.lon.py # "float"
             THEN [ t EXCEPT !.pc = "feito", !.erro = "TypeError" ]
             ELSE [ t EXCEPT !.pc = "laco",
                             !.itens = Slice(Intersecao(cache.rtree_index, t.lat.v,
                                                        t.lon.v, t.raio_km), t.limite),
                             !.indices_vistos = {cache.rtree_index.build} ] ]
    /\ UNCHANGED <<cache, antigos, lote, disco, construtor, carregador, ret>>

\* lines 200-208 for one item: cache['dados_json'] is None -> TypeError
TarefaPasso(k) ==
    /\ k \in DOMAIN tarefas
    /\ tarefas[k].pc = "laco"
    /\ tarefas[k].itens # <<>>
    /\ LET t == tarefas[k]
           d == cache.dados_json
       IN  IF d.build = 0
           THEN /\ tarefas' = [ tarefas EXCEPT ![k] =
                                  [ t EXCEPT !.pc = "feito", !.erro = "TypeError" ] ]
                /\ UNCHANGED cache
           ELSE LET r == PassoRtree(Head(t.itens), t.lat.v, t.lon.v, t.raio_km,
                                    d.postos_por_id, <<>>)
                    novos == [ i \in DOMAIN r.lista |->
                                 [ carga |-> d.carga, id |-> r.lista[i] ] ]
                IN  /\ cache' = [ cache EXCEPT !.dados_json.postos_por_id = r.por_id ]
                    /\ tarefas' = [ tarefas EXCEPT ![k] =
                         [ t EXCEPT !.itens = Tail(t.itens),
                                    !.lista = t.lista \o novos,
                                    !.json_vistos = t.json_vistos \cup {d.build} ] ]
    /\ UNCHANGED <<antigos, lote, disco, construtor, carregador, ret>>

\* line 211: the sort reads the key of each dict as it is now
TarefaOrdena(k) ==
    /\ k \in DOMAIN tarefas
    /\ tarefas[k].pc = "laco"
    /\ tarefas[k].itens = <<>>
    /\ LET t == tarefas[k]
           key == [ i \in DOMAIN t.lista |-> Deref(t.lista[i]).distancia ]
           ordem == StableSortIdx(Len(t.lista), key)
       IN  tarefas' = [ tarefas EXCEPT ![k] =
             [ t EXCEPT !.pc = "feito",
                        !.lista = [ i \in DOMAIN t.lista |-> t.lista[ordem[i]] ] ] ]
    /\ UNCHANGED <<cache, antigos, lote, disco, construtor, carregador, ret>>

(***************************************************************************)
(* buscar_postos_lote.  A point of the list is a Python value: a dict      *)
(* [py |-> "dict", d |-> ...] whose values are Python values, or a value   *)
(* that is no mapping.                                                     *)
(***************************************************************************)
PontoDict(d) == [ py |-> "dict", d |-> d ]

\* the points of the model: the query points, a point without 'lat', a
\* point whose 'lat' is a string, and a point that is a list
PontosLote ==
    { PontoDict([ lat |-> PyFloat(q.lat), lon |-> PyFloat(q.lon) ]) : q \in PontosConsulta }
    \cup { PontoDict([ lon |-> PyFloat(-4663000) ]),
           PontoDict([ lat |-> PyStr("abc"), lon |-> PyFloat(-4663000) ]),
           [ py |-> "list" ] }

\* the lists of points the model calls buscar_postos_lote with
LotesEntrada == UNION { [1..n -> PontosLote] : n \in 0..MaxPontos }

\* the snapshots the batch runs on
SnapshotsLote == SeqsDistintas(Range(Catalogo), MaxPostosLote)

\* the k-th smallest element of a set of integers
Kesimo(S, k) == CHOOSE i \in S : Cardinality({ j \in S : j <= i }) = k

\* lines 372-383.  ThreadPoolExecutor(max_workers=0) raises ValueError.
\* ponto.get on a value that is no mapping raises AttributeError: the tasks
\* of the points before it are under way, the `with` block waits for them
\* and the exception goes on to the caller.  A point whose lat or lon is
\* None or absent gets no task.  lote.indices[k] is the index i (from 0) of
\* the point of task k.
LoteChama ==
    /\ ret.op = "nenhuma"
    /\ lote.pc = "parado"
    /\ tarefas = SemTarefas
    /\ \E pontos \in LotesEntrada, raio_km \in Raios, limite \in Limites :
        IF Len(pontos) = 0
        THEN /\ ret' = [ op |-> "lote", pontos |-> pontos, raio_km |-> raio_km,
                         limite |-> limite, erro |-> "ValueError", valor |-> <<>> ]
             /\ UNCHANGED <<tarefas, lote>>
        ELSE LET naoMap == { i \in DOMAIN pontos : pontos[i].py # "dict" }
                 ate == IF naoMap = {} THEN Len(pontos) ELSE Kesimo(naoMap, 1) - 1
                 comTarefa == { i \in 1..ate :
                                  /\ Get(pontos[i].d, "lat", PyNone).py # "NoneType"
                                  /\ Get(pontos[i].d, "lon", PyNone).py # "NoneType" }
                 n == Cardinality(comTarefa)
             IN  /\ tarefas' = [ k \in 1..n |->
                                   LET ponto == pontos[Kesimo(comTarefa, k)]
                                   IN  NovaTarefa(ponto.d.lat, ponto.d.lon, raio_km, limite) ]
                 /\ lote' = [ pc |-> "rodando", pontos |-> pontos, raio_km |-> raio_km,
                              limite |-> limite,
                              indices |-> [ k \in 1..n |-> Kesimo(comTarefa, k) - 1 ],
                              erro |-> IF naoMap = {} THEN "" ELSE "AttributeError" ]
                 /\ UNCHANGED ret
    /\ UNCHANGED <<cache, antigos, disco, construtor, carregador>>

\* lines 386-395: resultados[i] is the list of the task of point i, or []
\* when the task raised; the caller reads the map when all tasks are done
LoteColeta ==
    /\ lote.pc = "rodando"
    /\ \A k \in DOMAIN tarefas : tarefas[k].pc = "feito"
    /\ ret' = [ op |-> "lote", pontos |-> lote.pontos, raio_km |-> lote.raio_km,
                limite |-> lote.limite, erro |-> lote.erro,
                valor |-> IF lote.erro # "" THEN <<>>
                          ELSE [ i \in Range(lote.indices) |->
                                   LET t == tarefas[CHOOSE k \in DOMAIN tarefas :
                                                      lote.indices[k] = i]
                                   IN  IF t.erro # "" THEN <<>> ELSE ValoresDe(t.lista) ] ]
    /\ tarefas' = SemTarefas
    /\ lote' = SemLote
    /\ UNCHANGED <<cache, antigos, disco, construtor, carregador>>

InitLote == \E postos \in SnapshotsLote : Servindo(postos)

NextLote ==
    \/ LoteChama
    \/ \E k \in 1..MaxPontos : TarefaInicia(k)
    \/ \E k \in 1..MaxPontos : TarefaPasso(k)
    \/ \E k \in 1..MaxPontos : TarefaOrdena(k)
    \/ LoteColeta
    \/ Entregar

SpecLote == InitLote /\ [][NextLote]_vars

(***************************************************************************)
(* The reload.  The builder (otimizador_dados.py) replaces the *_latest    *)
(* files one at a time; inicializar_cache (the route /api/init-cache)      *)
(* loads them one at a time and assigns each component that loaded, under  *)
(* cache_lock, which no query takes; a query thread runs at the same time. *)
(***************************************************************************)
\* the records of build b
PostosDoBuild(b) ==
    << Catalogo[((b - 1) % Len(Catalogo)) + 1], Catalogo[(b % Len(Catalogo)) + 1] >>

\* the files criar_links_mais_recentes removes, then the files it copies,
\* in its order (the database, which the server does not load, left out)
Links == << "json", "rtree", "grid", "kd" >>

\* executar_otimizacao has written the files of a new build under their
\* timestamped names and calls criar_links_mais_recentes
ConstrutorInicia ==
    /\ construtor.pc = "parado"
    /\ construtor.build < MaxBuilds
    /\ construtor' = [ pc |-> "remove", build |-> construtor.build + 1, fila |-> Links ]
    /\ UNCHANGED <<cache, antigos, tarefas, lote, disco, carregador, ret>>

\* lines 374-379 for one link.  os.path.exists(rtree_link) is False, the
\* R-tree being the files rtree_latest.dat and rtree_latest.idx: they stay.
RemoveLink ==
    /\ construtor.pc = "remove"
    /\ LET link == Head(construtor.fila)
           resto == Tail(construtor.fila)
       IN  /\ disco' = IF link = "rtree" THEN disco ELSE [ disco EXCEPT ![link] = Nada ]
           /\ construtor' = IF resto = <<>>
                            THEN [ construtor EXCEPT !.pc = "copia", !.fila = Links ]
                            ELSE [ construtor EXCEPT !.fila = resto ]
    /\ UNCHANGED <<cache, antigos, tarefas, lote, carregador, ret>>

\* lines 382-393 for one file (the two files of the R-tree in one step)
CopiaArquivo ==
    /\ construtor.pc = "copia"
    /\ LET link == Head(construtor.fila)
           resto == Tail(construtor.fila)
           novos == ArquivosDe(construtor.build, PostosDoBuild(construtor.build))
       IN  /\ disco' = [ disco EXCEPT ![link] = novos[link] ]
           /\ construtor' = IF resto = <<>>
                            THEN [ construtor EXCEPT !.pc = "parado", !.fila = <<>> ]
                            ELSE [ construtor EXCEPT !.fila = resto ]
    /\ UNCHANGED <<cache, antigos, tarefas, lote, carregador, ret>>

\* a client calls /api/init-cache: inicializar_cache takes cache_lock
RecarregaInicia ==
    /\ carregador.pc = "parado"
    /\ carregador.cargas < MaxCargas
    /\ carregador' = [ pc |-> "json", cargas |-> carregador.cargas + 1 ]
    /\ UNCHANGED <<cache, antigos, tarefas, lote, disco, construtor, ret>>

\* lines 139-141: the object the cache held stays alive for the lists that
\* refer to its dicts
CarregaJson ==
    /\ carregador.pc = "json"
    /\ LET dados_json == carregar_dados_json(disco.json, carregador.cargas)
       IN  IF dados_json.build # 0
           THEN /\ cache' = [ cache EXCEPT !.dados_json = dados_json ]
                /\ antigos' = IF cache.dados_json.build = 0 THEN antigos
                              ELSE (cache.dados_json.carga :> cache.dados_json) @@ antigos
                /\ carregador' = [ carregador EXCEPT !.pc = "total" ]
           ELSE /\ UNCHANGED <<cache, antigos>>
                /\ carregador' = [ carregador EXCEPT !.pc = "rtree" ]
    /\ UNCHANGED <<tarefas, lote, disco, construtor, ret>>

\* line 142
AtribuiTotal ==
    /\ carregador.pc = "total"
    /\ cache' = [ cache EXCEPT !.total_postos = cache.dados_json.metadata.total_postos ]
    /\ carregador' = [ carregador EXCEPT !.pc = "rtree" ]
    /\ UNCHANGED <<antigos, tarefas, lote, disco, construtor, ret>>

\* lines 145-147
CarregaRtree ==
    /\ carregador.pc = "rtree"
    /\ cache' = IF disco.rtree.build # 0
                THEN [ cache EXCEPT !.rtree_index = disco.rtree ] ELSE cache
    /\ carregador' = [ carregador EXCEPT !.pc = "grid" ]
    /\ UNCHANGED <<antigos, tarefas, lote, disco, construtor, ret>>

\* lines 150-152
CarregaGrid ==
    /\ carregador.pc = "grid"
    /\ cache' = IF disco.grid.build # 0
                THEN [ cache EXCEPT !.grid_index = disco.grid ] ELSE cache
    /\ carregador' = [ carregador EXCEPT !.pc = "kd" ]
    /\ UNCHANGED <<antigos, tarefas, lote, disco, construtor, ret>>

\* lines 155-162: the lock is released
CarregaKd ==
    /\ carregador.pc = "kd"
    /\ cache' = IF disco.kd.build # 0
                THEN [ cache EXCEPT !.kd_tree_data = disco.kd ] ELSE cache
    /\ carregador' = [ carregador EXCEPT !.pc = "parado" ]
    /\ UNCHANGED <<antigos, tarefas, lote, disco, construtor, ret>>

\* a client calls buscar_postos_proximidade_rtree: a thread of the server
\* runs it
LeitorChama ==
    /\ ret.op = "nenhuma"
    /\ lote.pc = "parado"
    /\ tarefas = SemTarefas
    /\ \E p \in PontosConsulta, raio_km \in Raios, limite \in Limites :
         tarefas' = << NovaTarefa(PyFloat(p.lat), PyFloat(p.lon), raio_km, limite) >>
    /\ UNCHANGED <<cache, antigos, lote, disco, construtor, carregador, ret>>

\* the call returns; the client gets the list, and with it what the call
\* had read
LeitorRetorna ==
    /\ lote.pc = "parado"
    /\ Len(tarefas) = 1
    /\ tarefas[1].pc = "feito"
    /\ LET t == tarefas[1]
       IN  ret' = [ op |-> "rtree", lat |-> t.lat.v, lon |-> t.lon.v,
                    raio_km |-> t.raio_km, limite |-> t.limite, erro |-> t.erro,
                    valor |-> ValoresDe(t.lista), inicio |-> t.inicio,
                    indices_vistos |-> t.indices_vistos, json_vistos |-> t.json_vistos ]
    /\ tarefas' = SemTarefas
    /\ UNCHANGED <<cache, antigos, lote, disco, construtor, carregador>>

InitCache == Servindo(PostosDoBuild(1))

NextCache ==
    \/ ConstrutorInicia
    \/ RemoveLink
    \/ CopiaArquivo
    \/ RecarregaInicia
    \/ CarregaJson
    \/ AtribuiTotal
    \/ CarregaRtree
    \/ CarregaGrid
    \/ CarregaKd
    \/ LeitorChama
    \/ TarefaInicia(1)
    \/ TarefaPasso(1)
    \/ TarefaOrdena(1)
    \/ LeitorRetorna
    \/ Entregar

SpecCache == InitCache /\ [][NextCache]_vars

(***************************************************************************)
(* The consolidation of the scraped records                                *)
(* (scripts/scraper_multiplas_fontes.py).  A scraped record is a dict; its *)
(* coordinates and prices are Python values, its data_coleta (a date       *)
(* written as %Y-%m-%d, compared as a string) is the number of its day,    *)
(* 0 standing for the '' that replaces an absent date.  The list a set is  *)
(* turned into has no order of its own: 'fontes' is kept as a set.         *)
(***************************************************************************)
\* deduplicar_por_proximidade(distancia_maxima=0.05): 0.05 degree
DistanciaMaxima == 5000
\* tamanho_celula = 0.1 degree in deduplicar_por_proximidade
TamanhoCelulaDedup == 10000

\* the numbers the strings of the model are the decimal writing of:
\* coordinates in 1e-5 degree, prices in centavos
NumeroEscrito ==
    ("-23.55" :> -2355000) @@ ("-46.63" :> -4663000) @@ ("0" :> 0) @@ ("0.0" :> 0)
    @@ ("5.10" :> 510) @@ ("3.50" :> 350)

\* float(x): [erro, v]
Float(x) ==
    CASE x.py = "float" -> [ erro |-> "", v |-> x.v ]
      [] x.py = "NoneType" -> [ erro |-> "TypeError", v |-> 0 ]
      [] x.py = "str" ->
           IF x.s \in DOMAIN NumeroEscrito
           THEN [ erro |-> "", v |-> NumeroEscrito[x.s] ]
           ELSE [ erro |-> "ValueError", v |-> 0 ]

\* float(posto.get(campo, 0))
Coordenada(posto, campo) == Float(Get(posto, campo, PyFloat(0)))

\* whether the first loop of deduplicar_por_proximidade puts the record in
\* a cell: its coordinates parse and are not both zero
EntraNoGrid(posto) ==
    /\ Coordenada(posto, "latitude").erro = ""
    /\ Coordenada(posto, "longitude").erro = ""
    /\ ~(Coordenada(posto, "latitude").v = 0 /\ Coordenada(posto, "longitude").v = 0)

\* a grid of one cell
ChaveDedup_UmaCelula(posto) == <<0, 0>>

\* the grid key of a record that enters the grid
ChaveDedup(posto) ==
    GridKey(Coordenada(posto, "latitude").v, Coordenada(posto, "longitude").v,
            TamanhoCelulaDedup)

\* the test of line 602 on two records of a cell
Proximos(posto1, posto2) ==
    /\ Abs(Coordenada(posto1, "latitude").v - Coordenada(posto2, "latitude").v)
         <= DistanciaMaxima
    /\ Abs(Coordenada(posto1, "longitude").v - Coordenada(posto2, "longitude").v)
         <= DistanciaMaxima

\* only None counts as no value
Disponivel_SoNone(valor) == valor # PyNone

\* `valor not in [None, '', 'N/A']`
Disponivel(valor) == valor \notin { PyNone, PyStr(""), PyStr("N/A") }

CamposMesclados == { "preco_gasolina", "preco_alcool", "preco_diesel", "preco_gnv" }

\* mesclar_postos_similares on a list of at least one record
mesclar_postos_similares(postos) ==
    IF Len(postos) = 1 THEN postos[1]
    ELSE
    LET key == [ i \in DOMAIN postos |-> 0 - Get(postos[i], "data_coleta", 0) ]
        ordem == StableSortIdx(Len(postos), key)
        postos_ordenados == [ k \in DOMAIN postos |-> postos[ordem[k]] ]
        posto_base == postos_ordenados[1]
        Doadores(campo) ==
            { k \in 2..Len(postos) : Disponivel(Get(postos_ordenados[k], campo, PyNone)) }
        Mescla(campo) ==
            /\ ~Disponivel(Get(posto_base, campo, PyNone))
            /\ Doadores(campo) # {}
        Primeiro(campo) == CHOOSE k \in Doadores(campo) : \A j \in Doadores(campo) : k <= j
    IN  [ k \in (DOMAIN posto_base) \cup { c \in CamposMesclados : Mescla(c) } \cup {"fontes"} |->
            IF k = "fontes" THEN { Get(postos[i], "fonte", "") : i \in DOMAIN postos }
            ELSE IF k \in CamposMesclados /\ Mescla(k) THEN postos_ordenados[Primeiro(k)][k]
            ELSE posto_base[k] ]

\* the list postos after lines 634-649 wrote the merged fields into
\* posto_base: the writes reach the record at indice_base of the list only
\* when posto_base is that record itself and not a copy of it
AposEscritas(postos, indice_base, base_e_o_registro, mesclado) ==
    IF base_e_o_registro THEN [ postos EXCEPT ![indice_base] = mesclado ] ELSE postos

\* the list postos after mesclar_postos_similares(postos) returned:
\* sorted() builds a new list and posto_base is postos_ordenados[0].copy()
PostosAposMesclar(postos) ==
    IF Len(postos) = 1 THEN postos
    ELSE LET key == [ i \in DOMAIN postos |-> 0 - Get(postos[i], "data_coleta", 0) ]
             ordem == StableSortIdx(Len(postos), key)
         IN  AposEscritas(postos, ordem[1], FALSE, mesclar_postos_similares(postos))

\* lines 572-608 on the records of one cell, from index i on: the groups
\* the sweep forms, each the seed and the later records near the seed that
\* no earlier group took
RECURSIVE Varredura(_, _, _)
Varredura(postos_celula, i, postos_processados) ==
    IF i > Len(postos_celula) THEN <<>>
    ELSE IF i \in postos_processados
    THEN Varredura(postos_celula, i + 1, postos_processados)
    ELSE LET similares == { j \in (i + 1)..Len(postos_celula) :
                              /\ j \notin postos_processados
                              /\ Proximos(postos_celula[i], postos_celula[j]) }
             grupo_similar == <<postos_celula[i]>> \o SelectSeqIdx(postos_celula, similares, 1)
         IN  <<grupo_similar>>
               \o Varredura(postos_celula, i + 1, postos_processados \cup {i} \cup similares)

\* a cell contributes its first record only
UnicosDaCelula_SoPrimeiro(postos_celula) == <<postos_celula[1]>>

\* the records a cell contributes to postos_unicos
UnicosDaCelula(postos_celula) ==
    IF Len(postos_celula) = 1 THEN postos_celula
    ELSE LET grupos == Varredura(postos_celula, 1, {})
         IN  [ g \in DOMAIN grupos |-> mesclar_postos_similares(grupos[g]) ]

\* the cells of the grid in the order a dict hands them out (the order in
\* which their first record came), each with its records in input order
RECURSIVE Celulas(_, _)
Celulas(postos, vistas) ==
    IF postos = <<>> THEN <<>>
    ELSE IF ~EntraNoGrid(Head(postos)) \/ ChaveDedup(Head(postos)) \in vistas
    THEN Celulas(Tail(postos), vistas)
    ELSE LET chave == ChaveDedup(Head(postos))
             NaCelula(p) == EntraNoGrid(p) /\ ChaveDedup(p) = chave
         IN  <<SelectSeq(postos, NaCelula)>> \o Celulas(Tail(postos), vistas \cup {chave})

RECURSIVE Concatenar(_)
Concatenar(seqs) ==
    IF seqs = <<>> THEN <<>> ELSE Head(seqs) \o Concatenar(Tail(seqs))

\* deduplicar_por_proximidade(postos)
deduplicar_por_proximidade(postos) ==
    LET celulas == Celulas(postos, {})
    IN  Concatenar([ c \in DOMAIN celulas |-> UnicosDaCelula(celulas[c]) ])

\* the scraped records of the model.  "ANP", "OGlobo", "Minas" and "Manual"
\* lie in one cell, 0.04 degree of latitude apart from one to the next;
\* "Waze" lies 0.01 degree from "ANP" in the next cell; the latitude of
\* "Playwright" does not parse; "Manual" has no data_coleta.
Coletados ==
    { [ fonte |-> "ANP", nome |-> "Posto A", data_coleta |-> 3,
        latitude |-> PyFloat(-2350500), longitude |-> PyFloat(-4660000),
        preco_gasolina |-> PyStr("5,10"), preco_alcool |-> PyNone,
        preco_diesel |-> PyStr("N/A") ],
      [ fonte |-> "OGlobo", nome |-> "Posto B", data_coleta |-> 3,
        latitude |-> PyFloat(-2354500), longitude |-> PyFloat(-4660000),
        preco_gasolina |-> PyStr("5,00"), preco_alcool |-> PyStr("3,50"),
        preco_diesel |-> PyStr(""), preco_gnv |-> PyStr("4,00") ],
      [ fonte |-> "Minas", nome |-> "Posto C", data_coleta |-> 1,
        latitude |-> PyFloat(-2358500), longitude |-> PyFloat(-4660000),
        preco_gasolina |-> PyStr(""), preco_alcool |-> PyStr("3,40"),
        preco_diesel |-> PyStr("6,00"), preco_gnv |-> PyStr("N/A") ],
      [ fonte |-> "Waze", nome |-> "Posto D", data_coleta |-> 2,
        latitude |-> PyFloat(-2349500), longitude |-> PyFloat(-4660000),
        preco_gasolina |-> PyStr("5,20"), preco_alcool |-> PyNone,
        preco_diesel |-> PyNone, preco_gnv |-> PyNone ],
      [ fonte |-> "Playwright", nome |-> "Posto E", data_coleta |-> 2,
        latitude |-> PyStr("abc"), longitude |-> PyFloat(-4660000),
        preco_gasolina |-> PyStr("4,90"), preco_alcool |-> PyStr("3,30"),
        preco_diesel |-> PyStr("5,90"), preco_gnv |-> PyStr("3,90") ],
      [ fonte |-> "Manual", nome |-> "Posto F",
        latitude |-> PyFloat(-2352500), longitude |-> PyFloat(-4660000),
        preco_gasolina |-> PyNone, preco_alcool |-> PyStr("3,20"),
        preco_diesel |-> PyStr("5,80"), preco_gnv |-> PyStr("3,80") ] }

\* the lists of scraped records the model consolidates
ListasColetadas == SeqsDistintas(Coletados, MaxColetados)

\* consolidar_dados calls deduplicar_por_proximidade(todos_postos)
Deduplica ==
    /\ ret.op = "nenhuma"
    /\ \E postos \in ListasColetadas :
         ret' = [ op |-> "deduplicar", postos |-> postos,
                  valor |-> deduplicar_por_proximidade(postos) ]
    /\ UNCHANGED <<cache, antigos, tarefas, lote, disco, construtor, carregador>>

\* mesclar_postos_similares is called with a group
Mescla ==
    /\ ret.op = "nenhuma"
    /\ \E postos \in ListasColetadas :
         /\ postos # <<>>
         /\ ret' = [ op |-> "mesclar", postos |-> postos,
                     valor |-> mesclar_postos_similares(postos),
                     depois |-> PostosAposMesclar(postos) ]
    /\ UNCHANGED <<cache, antigos, tarefas, lote, disco, construtor, carregador>>

\* the scripts run with no server at work
InitScripts == Servindo(<<>>)

NextDedup ==
    \/ Deduplica
    \/ Mescla
    \/ Entregar

SpecDedup == InitScripts /\ [][NextDedup]_vars

(***************************************************************************)
(* The validation of the input of a build                                  *)
(* (OtimizadorDados.validar_dados) and the build over its result.  An      *)
(* input record is a dict of Python values; a validated record has its     *)
(* coordinates as numbers (1e-5 degree) and its prices as Python values    *)
(* (a float in centavos, None, or the string the input had).               *)
(***************************************************************************)
\* s.replace(',', '.')
Replace(s) ==
    CASE s = "5,10" -> "5.10"
      [] s = "3,50" -> "3.50"
      [] OTHER -> s

\* f"posto_{n}"
IdSintetico(n) == PyStr("posto_" \o ToString(n))

\* the day datetime.now() gives
Hoje == 9

\* both coordinates or one of them
UmaZero(lat, lon) == lat = 0 \/ lon = 0

\* `lat == 0 and lon == 0`
AmbasZero(lat, lon) == lat = 0 /\ lon = 0

\* lines 105-112 on the value of one price field that the record has
NormalizarPreco(valor) ==
    IF valor \in { PyNone, PyStr(""), PyStr("N/A") } THEN valor
    ELSE IF valor.py # "str" THEN PyNone
    ELSE LET f == Float(PyStr(Replace(valor.s)))
         IN  IF f.erro = "" THEN PyFloat(f.v) ELSE PyNone

\* the four price fields of lines 105 and 125-128
CamposDePrecoValidados == { "preco_gasolina", "preco_alcool", "preco_diesel", "preco_gnv" }

\* the body of the loop of validar_dados on one record, n records being
\* valid so far: [valido, posto]
ValidarPosto(posto, n) ==
    LET lat == Float(Get(posto, "latitude", PyFloat(0)))
        lon == Float(Get(posto, "longitude", PyFloat(0)))
        normalizado ==
            [ k \in DOMAIN posto |->
                IF k \in CamposDePrecoValidados THEN NormalizarPreco(posto[k]) ELSE posto[k] ]
        campos_obrigatorios ==
            [ id |-> Get(normalizado, "id", IdSintetico(n)),
              nome |-> Get(normalizado, "nome", "Posto sem nome"),
              bandeira |-> Get(normalizado, "bandeira", "Bandeira Branca"),
              endereco |-> Get(normalizado, "endereco", ""),
              bairro |-> Get(normalizado, "bairro", ""),
              cidade |-> Get(normalizado, "cidade", ""),
              estado |-> Get(normalizado, "estado", ""),
              latitude |-> lat.v,
              longitude |-> lon.v,
              preco_gasolina |-> Get(normalizado, "preco_gasolina", PyNone),
              preco_alcool |-> Get(normalizado, "preco_alcool", PyNone),
              preco_diesel |-> Get(normalizado, "preco_diesel", PyNone),
              preco_gnv |-> Get(normalizado, "preco_gnv", PyNone),
              data_coleta |-> Get(normalizado, "data_coleta", Hoje),
              fonte |-> Get(normalizado, "fonte", "Desconhecida") ]
    IN  IF lat.erro # "" \/ lon.erro # "" THEN [ valido |-> FALSE ]
        ELSE IF AmbasZero(lat.v, lon.v) THEN [ valido |-> FALSE ]
        ELSE [ valido |-> TRUE,
               posto |-> [ k \in (DOMAIN posto) \cup (DOMAIN campos_obrigatorios) |->
                             IF k \in DOMAIN campos_obrigatorios
                             THEN campos_obrigatorios[k] ELSE posto[k] ] ]

\* the loop of validar_dados from the i-th record on
RECURSIVE LacoValidar(_, _, _, _)
LacoValidar(postos, i, postos_validos, postos_invalidos) ==
    IF i > Len(postos)
    THEN [ postos_validos |-> postos_validos, postos_invalidos |-> postos_invalidos ]
    ELSE LET r == ValidarPosto(postos[i], Len(postos_validos))
         IN  IF r.valido
             THEN LacoValidar(postos, i + 1, Append(postos_validos, r.posto), postos_invalidos)
             ELSE LacoValidar(postos, i + 1, postos_validos, postos_invalidos + 1)

\* validar_dados: the valid records (self.postos afterwards) and the count
\* of the invalid ones it logs
validar_dados(postos) == LacoValidar(postos, 1, <<>>, 0)

\* the input records of the model
Brutos ==
    { [ nome |-> "A", estado |-> "SP", cidade |-> "Sao Paulo", bandeira |-> "Shell",
        latitude |-> PyStr("-23.55"), longitude |-> PyStr("-46.63"),
        preco_gasolina |-> PyStr("5,10"), preco_alcool |-> PyStr("3.50"),
        preco_diesel |-> PyFloat(400) ],
      [ nome |-> "B", id |-> PyStr("posto_0"), estado |-> "SP",
        latitude |-> PyFloat(-2354000), longitude |-> PyFloat(-4664000),
        preco_gasolina |-> PyStr("N/A"), preco_alcool |-> PyStr(""),
        preco_diesel |-> PyNone, preco_gnv |-> PyStr("R$ 4") ],
      [ nome |-> "C", id |-> PyStr("posto_1"),
        latitude |-> PyFloat(0), longitude |-> PyStr("0.0"),
        preco_gasolina |-> PyStr("5,10") ],
      [ nome |-> "D", latitude |-> PyStr("abc"), longitude |-> PyFloat(-4663000),
        preco_gasolina |-> PyStr("5,10") ],
      [ nome |-> "E", id |-> PyInt(7), estado |-> "RJ", cidade |-> "Niteroi",
        latitude |-> PyFloat(0), longitude |-> PyFloat(-4663000),
        preco_gasolina |-> PyStr("3,50"), preco_gnv |-> PyNone ],
      [ nome |-> "F", preco_gasolina |-> PyStr("5,10") ],
      [ nome |-> "G", id |-> PyStr("posto_0"), estado |-> "RJ", bandeira |-> "Shell",
        latitude |-> PyFloat(-2345000), longitude |-> PyFloat(-4663000),
        preco_alcool |-> PyStr("3,50") ],
      [ nome |-> "H", id |-> PyStr("h"), latitude |-> PyNone,
        longitude |-> PyFloat(-4663000) ] }

\* the inputs of validar_dados of the model
ListasBrutas == SeqsDistintas(Brutos, MaxBrutos)

\* executar_otimizacao calls validar_dados on the loaded records
Valida ==
    /\ ret.op = "nenhuma"
    /\ \E postos \in ListasBrutas :
         ret' = [ op |-> "validar", postos |-> postos, valor |-> validar_dados(postos) ]
    /\ UNCHANGED <<cache, antigos, tarefas, lote, disco, construtor, carregador>>

\* executar_otimizacao: validar_dados, then the four files built from the
\* valid records
Otimiza ==
    /\ ret.op = "nenhuma"
    /\ \E postos \in ListasBrutas :
         LET validos == validar_dados(postos).postos_validos
         IN  ret' = [ op |-> "otimizar", postos |-> postos, validos |-> validos,
                      valor |-> ArquivosDe(1, validos) ]
    /\ UNCHANGED <<cache, antigos, tarefas, lote, disco, construtor, carregador>>

NextValida ==
    \/ Valida
    \/ Otimiza
    \/ Entregar

SpecValida == InitScripts /\ [][NextValida]_vars

(***************************************************************************)
(* The routes of backend/app.py, from a server that started with no file   *)
(* of a build on disk: the import-time inicializar_cache loaded nothing.   *)
(* A route answers with a status: 200, the 400 and 500 it returns itself,  *)
(* and the 500 Flask answers with when the handler raises.                 *)
(***************************************************************************)
\* min(raio, 50.0)
RaioMaximo == 50
\* min(limite, 100)
LimiteMaximo == 100
\* min(limite, 500)
LimiteMaximoFiltros == 500

\* min(a, b)
Min(a, b) == IF a <= b THEN a ELSE b

\* the cache of lines 55-62, before anything is loaded
CacheVazio ==
    [ dados_json |-> Nada, rtree_index |-> Nada, grid_index |-> Nada,
      kd_tree_data |-> Nada, total_postos |-> 0 ]

\* the data directory with no file of a build
DiscoVazio == [ json |-> Nada, rtree |-> Nada, grid |-> Nada, kd |-> Nada ]

\* inicializar_cache run alone on the cache c with the files d, as the
\* load number carga: each component that loads replaces the one the cache
\* holds
inicializar_cache(c, d, carga) ==
    LET dados_json == carregar_dados_json(d.json, carga)
    IN  [ dados_json |-> IF dados_json.build # 0 THEN dados_json ELSE c.dados_json,
          total_postos |-> IF dados_json.build # 0
                           THEN dados_json.metadata.total_postos ELSE c.total_postos,
          rtree_index |-> IF d.rtree.build # 0 THEN d.rtree ELSE c.rtree_index,
          grid_index |-> IF d.grid.build # 0 THEN d.grid ELSE c.grid_index,
          kd_tree_data |-> IF d.kd.build # 0 THEN d.kd ELSE c.kd_tree_data ]

\* the values of lines 441-442 for the radius and the limit of a request
ParametrosProximos(raio, limite) ==
    [ raio |-> Min(raio, RaioMaximo), limite |-> Min(limite, LimiteMaximo) ]

\* api_postos_proximos for numeric arguments: [status, valor, chamou,
\* passados, cache]; passados are the radius and the limit the query was
\* called with
api_postos_proximos(c, lat, lon, raio, limite) ==
    IF lat = 0 /\ lon = 0
    THEN [ status |-> 400, valor |-> <<>>, chamou |-> FALSE,
           passados |-> [ raio |-> 0, limite |-> 0 ], cache |-> c ]
    ELSE LET passados == ParametrosProximos(raio, limite)
             r == buscar_postos_proximidade_rtree(c, lat, lon, passados.raio, passados.limite)
         IN  [ status |-> IF r.erro = "" THEN 200 ELSE 500,
               valor |-> Valores(r.lista, r.cache.dados_json.postos_por_id),
               chamou |-> TRUE, passados |-> passados, cache |-> r.cache ]

\* api_postos_filtros: the filter dict always has 'ordenar_por', by default
\* 'preco_gasolina'
api_postos_filtros(c, args, limite) ==
    LET filtros == IF "ordenar_por" \in DOMAIN args THEN args
                   ELSE SetItem(args, "ordenar_por", "preco_gasolina")
        r == buscar_postos_filtros(c, filtros, Min(limite, LimiteMaximoFiltros))
    IN  [ status |-> IF r.erro = "" THEN 200 ELSE 500, valor |-> r.valor,
          cache |-> r.cache ]

\* api_metadados
api_metadados(c) ==
    IF c.dados_json.build = 0 THEN [ status |-> 500, valor |-> <<>> ]
    ELSE [ status |-> 200, valor |-> c.dados_json.metadata ]

\* the points, the radii and the limits of the requests to the nearby route
PontosDaRota == PontosConsulta \cup { [ lat |-> 0, lon |-> 0 ] }
RaiosDaRota == { -1, 0, 5, 60 }
LimitesDaRota == { -2, 0, 3, 150 }

\* a build publishes its files (criar_links_mais_recentes, run alone)
Publica ==
    /\ disco = DiscoVazio
    /\ \E postos \in SnapshotsLote : disco' = ArquivosDe(1, postos)
    /\ UNCHANGED <<cache, antigos, tarefas, lote, construtor, carregador, ret>>

\* a client calls /api/init-cache
InicializaCache ==
    /\ carregador.pc = "parado"
    /\ carregador.cargas <= MaxCargas
    /\ lote.pc = "parado"
    /\ cache' = inicializar_cache(cache, disco, carregador.cargas + 1)
    /\ carregador' = [ carregador EXCEPT !.cargas = carregador.cargas + 1 ]
    /\ UNCHANGED <<antigos, tarefas, lote, disco, construtor, ret>>

\* a client calls /api/postos/proximos
RotaProximos ==
    /\ ret.op = "nenhuma"
    /\ lote.pc = "parado"
    /\ \E p \in PontosDaRota, raio \in RaiosDaRota, limite \in LimitesDaRota :
        LET r == api_postos_proximos(cache, p.lat, p.lon, raio, limite)
        IN  /\ cache' = r.cache
            /\ ret' = [ op |-> "proximos", lat |-> p.lat, lon |-> p.lon, raio |-> raio,
                        limite |-> limite, carregado |-> cache.dados_json.build # 0,
                        status |-> r.status, valor |-> r.valor, chamou |-> r.chamou,
                        passados |-> r.passados ]
    /\ UNCHANGED <<antigos, tarefas, lote, disco, construtor, carregador>>

\* a client calls /api/postos/filtros
RotaFiltros ==
    /\ ret.op = "nenhuma"
    /\ lote.pc = "parado"
    /\ \E args \in FiltrosEntrada, limite \in Limites :
        LET r == api_postos_filtros(cache, args, limite)
        IN  /\ cache' = r.cache
            /\ ret' = [ op |-> "rota_filtros", filtros |-> args, limite |-> limite,
                        carregado |-> cache.dados_json.build # 0,
                        status |-> r.status, valor |-> r.valor ]
    /\ UNCHANGED <<antigos, tarefas, lote, disco, construtor, carregador>>

\* a client calls /api/postos/busca
RotaBusca ==
    /\ ret.op = "nenhuma"
    /\ lote.pc = "parado"
    /\ \E q \in TextosDeBusca, limite \in Limites :
        LET r == api_postos_busca(cache, q, limite)
        IN  ret' = [ op |-> "rota_busca", q |-> q, limite |-> limite,
                     carregado |-> cache.dados_json.build # 0,
                     status |-> IF r.erro = "" THEN 200
                                ELSE IF r.erro = "400" THEN 400 ELSE 500,
                     valor |-> r.valor ]
    /\ UNCHANGED <<cache, antigos, tarefas, lote, disco, construtor, carregador>>

\* a client calls /api/metadados
RotaMetadados ==
    /\ ret.op = "nenhuma"
    /\ lote.pc = "parado"
    /\ LET r == api_metadados(cache)
       IN  ret' = [ op |-> "metadados", carregado |-> cache.dados_json.build # 0,
                    status |-> r.status, valor |-> r.valor ]
    /\ UNCHANGED <<cache, antigos, tarefas, lote, disco, construtor, carregador>>

\* the server has started and found no file
InitRotas ==
    /\ cache = CacheVazio
    /\ disco = DiscoVazio
    /\ antigos = SemAntigos
    /\ tarefas = SemTarefas
    /\ lote = SemLote
    /\ construtor = ConstrutorParado
    /\ carregador = CarregadorParado
    /\ ret = SemChamada

NextRotas ==
    \/ Publica
    \/ InicializaCache
    \/ RotaProximos
    \/ RotaFiltros
    \/ RotaBusca
    \/ RotaMetadados
    \/ LoteChama
    \/ \E k \in 1..MaxPontos : TarefaInicia(k)
    \/ \E k \in 1..MaxPontos : TarefaPasso(k)
    \/ \E k \in 1..MaxPontos : TarefaOrdena(k)
    \/ LoteColeta
    \/ Entregar

SpecRotas == InitRotas /\ [][NextRotas]_vars

(***************************************************************************)
(* buscar_postos_proximidade_grid called with its own arguments, on a      *)
(* snapshot of stations around Porto Alegre: the function takes any        *)
(* radius, the cap of 50 km is the route's and the route calls the R-tree  *)
(* variant.                                                                *)
(***************************************************************************)
\* the stations per snapshot of this part
MaxPostosSul == 3

\* the records of the southern snapshots
CatalogoSul ==
    << Posto("s1", "Posto Litoral", "", "", "Shell", "Osorio", "RS", -3003000, -4968000,
             PyFloat(560), PyFloat(410), PyFloat(450)),
       Posto("s2", "Posto Guaiba", "", "", "Ipiranga", "Porto Alegre", "RS", -3005000, -5120000,
             PyFloat(570), PyFloat(420), PyFloat(460)),
       Posto("s3", "Posto Lagoa", "", "", "Shell", "Tapes", "RS", -3050000, -5160000,
             PyFloat(580), PyNone, PyFloat(470)),
       Posto("s4", "Posto Pampa", "", "", "Ipiranga", "Pantano Grande", "RS", -3003000, -5279000,
             PyFloat(590), PyFloat(430), PyNone) >>

\* the points, radii (km) and limits of the calls
PontosSul ==
    { [lat |-> -3003000, lon |-> -5123000],
      [lat |-> -3003000, lon |-> -5128000] }
RaiosSul == {50, 150}
LimitesSul == {1, 3}

\* a caller calls buscar_postos_proximidade_grid
ConsultaGridSul ==
    /\ ret.op = "nenhuma"
    /\ UNCHANGED <<antigos, tarefas, lote, disco, construtor, carregador>>
    /\ \E p \in PontosSul, raio_km \in RaiosSul, limite \in LimitesSul :
        LET r == buscar_postos_proximidade_grid(cache, p.lat, p.lon, raio_km, limite)
        IN  /\ cache' = r.cache
            /\ ret' = [ op |-> "grid", lat |-> p.lat, lon |-> p.lon,
                        raio_km |-> raio_km, limite |-> limite, erro |-> r.erro,
                        valor |-> Valores(r.lista, r.cache.dados_json.postos_por_id) ]

\* the server has loaded a build of at most MaxPostosSul of the records
InitSul == \E postos \in SeqsDistintas(Range(CatalogoSul), MaxPostosSul) : Servindo(postos)

NextSul ==
    \/ ConsultaGridSul
    \/ Entregar

SpecSul == InitSul /\ [][NextSul]_vars

(***************************************************************************)
(* safe_request of scripts/scraper_multiplas_fontes.py, run in steps: one  *)
(* turn of the try block, one time.sleep.  The call under way is the only  *)
(* element of tarefas; what the server answers is the environment's.       *)
(***************************************************************************)
\* the largest max_retries the model calls with
MaxTentativas == 3

\* what requests raises as a requests.exceptions.RequestException: the
\* HTTPError of raise_for_status and a failure of the connection
ErrosDeRequisicao == { "HTTPError", "ConnectionError" }

\* the test of line 81 always holds at the first attempt
UltimaTentativa_Primeira(attempt, max_retries) == attempt = 0

\* `attempt == max_retries - 1`
UltimaTentativa(attempt, max_retries) == attempt = max_retries - 1

\* the call returned valor or raised excecao
PedidoFeito(t, valor, excecao) ==
    [ t EXCEPT !.pc = "feito", !.valor = valor, !.excecao = excecao ]

\* a scraper calls safe_request(url, method, max_retries): range(0) has no
\* turn, and the function ends without a return statement
PedidoChama ==
    /\ ret.op = "nenhuma"
    /\ tarefas = <<>>
    /\ \E method \in { "get", "POST", "put" }, max_retries \in 0..MaxTentativas :
         LET t == [ pc |-> "tentativa", method |-> method, max_retries |-> max_retries,
                    attempt |-> 0, desfechos |-> <<>>, esperas |-> <<>>,
                    valor |-> PyNone, excecao |-> "" ]
         IN  tarefas' = << IF max_retries = 0 THEN PedidoFeito(t, PyNone, "") ELSE t >>
    /\ UNCHANGED <<cache, antigos, lote, disco, construtor, carregador, ret>>

\* lines 60-84, one turn of the loop up to the sleep: an unsupported method
\* raises ValueError, which no clause catches, before any request; the
\* request gives a response, raises a RequestException, or raises something
\* else (a TypeError for a keyword requests does not take), which leaves
\* the function
PedidoTenta ==
    /\ tarefas # <<>>
    /\ tarefas[1].pc = "tentativa"
    /\ LET t == tarefas[1]
       IN  IF Lower(t.method) \notin { "get", "post" }
           THEN tarefas' = << PedidoFeito(t, PyNone, "ValueError") >>
           ELSE \E desfecho \in { "ok", "TypeError" } \cup ErrosDeRequisicao :
                  LET u == [ t EXCEPT !.desfechos = Append(t.desfechos, desfecho) ]
                  IN  tarefas' = <<
                        IF desfecho = "ok"
                        THEN PedidoFeito(u, [ py |-> "Response", tentativa |-> t.attempt ], "")
                        ELSE IF desfecho \notin ErrosDeRequisicao
                        THEN PedidoFeito(u, PyNone, desfecho)
                        ELSE IF UltimaTentativa(t.attempt, t.max_retries)
                        THEN PedidoFeito(u, PyNone, "")
                        ELSE [ u EXCEPT !.pc = "espera" ] >>
    /\ UNCHANGED <<cache, antigos, lote, disco, construtor, carregador, ret>>

\* line 85: time.sleep(2 ** attempt), then the next turn of range(max_retries)
\* or the end of the loop
PedidoEspera ==
    /\ tarefas # <<>>
    /\ tarefas[1].pc = "espera"
    /\ LET t == tarefas[1]
           u == [ t EXCEPT !.esperas = Append(t.esperas, 2 ^ t.attempt),
                           !.attempt = t.attempt + 1 ]
       IN  tarefas' = << IF t.attempt + 1 < t.max_retries
                         THEN [ u EXCEPT !.pc = "tentativa" ]
                         ELSE PedidoFeito(u, PyNone, "") >>
    /\ UNCHANGED <<cache, antigos, lote, disco, construtor, carregador, ret>>

\* the caller has the value, or the exception
PedidoRetorna ==
    /\ tarefas # <<>>
    /\ tarefas[1].pc = "feito"
    /\ ret' = [ op |-> "safe_request", method |-> tarefas[1].method,
                max_retries |-> tarefas[1].max_retries,
                desfechos |-> tarefas[1].desfechos, esperas |-> tarefas[1].esperas,
                valor |-> tarefas[1].valor, excecao |-> tarefas[1].excecao ]
    /\ tarefas' = <<>>
    /\ UNCHANGED <<cache, antigos, lote, disco, construtor, carregador>>

NextPedido ==
    \/ PedidoChama
    \/ PedidoTenta
    \/ PedidoEspera
    \/ PedidoRetorna
    \/ Entregar

\* a call under way goes on: the request ends (timeout 10 by default), the
\* sleep ends, the function returns
SpecPedido ==
    /\ InitScripts
    /\ [][NextPedido]_vars
    /\ WF_vars(PedidoTenta \/ PedidoEspera \/ PedidoRetorna)

(***************************************************************************)
(* Claims.                                                                 *)
(***************************************************************************)
\* the exact distance of a record to the point of the call in ret
DistExata(posto) == calcular_distancia(ret.lat, ret.lon, posto.latitude, posto.longitude)

\* the ids of the records of postos within raio_km of (lat, lon), nearest
\* first by exact distance
MaisProximos(postos, lat, lon, raio_km) ==
    LET dentro == { i \in DOMAIN postos :
                      calcular_distancia(lat, lon, postos[i].latitude, postos[i].longitude)
                        <= raio_km * 1000 }
        seq == SelectSeqIdx(postos, dentro, 1)
        key == [ k \in DOMAIN seq |->
                   calcular_distancia(lat, lon, seq[k].latitude, seq[k].longitude) ]
        ordem == StableSortIdx(Len(seq), key)
    IN  [ k \in DOMAIN seq |-> seq[ordem[k]].id ]

IdsDe(valor) == [ k \in DOMAIN valor |-> valor[k].id ]

\* C1: buscar_postos_proximidade_rtree returns exactly the first `limite`
\* of all the snapshot's records within the radius, sorted ascending by
\* haversine distance.
C1_RtreePrimeirosDoRaio ==
    ret.op = "rtree" =>
        /\ ret.erro = ""
        /\ IdsDe(ret.valor) =
             Slice(MaisProximos(cache.dados_json.postos, ret.lat, ret.lon, ret.raio_km),
                   ret.limite)

\* C2: every record a radius query (R-tree or grid) returns is within the
\* radius, and the returned sequence is non-decreasing in exact distance.
C2_DentroDoRaioEOrdemExata ==
    ret.op \in {"rtree", "grid"} =>
        /\ \A k \in DOMAIN ret.valor : DistExata(ret.valor[k]) <= ret.raio_km * 1000
        /\ \A k \in DOMAIN ret.valor :
             k + 1 \in DOMAIN ret.valor =>
               DistExata(ret.valor[k]) <= DistExata(ret.valor[k + 1])

\* C5: no query changes the active snapshot: the order of
\* cache['dados_json']['postos'] and the fields and field values of every
\* record stay as they were when the snapshot was loaded.
C5_ConsultasNaoAlteramSnapshot == [][cache' = cache]_vars

\* the record field a maximum-price filter reads
CampoDoPreco(k) ==
    CASE k = "preco_max_gasolina" -> "preco_gasolina"
      [] k = "preco_max_alcool" -> "preco_alcool"
      [] k = "preco_max_diesel" -> "preco_diesel"

FiltrosDePreco == {"preco_max_gasolina", "preco_max_alcool", "preco_max_diesel"}

\* whether a record has a price for the fuel, at or below the maximum
PrecoAte(p, campo, preco_max) ==
    /\ campo \in DOMAIN p
    /\ p[campo].py = "float"
    /\ p[campo].v <= preco_max

\* whether a record satisfies every filter the caller provided
Satisfaz(p, filtros) ==
    /\ Fornecido(filtros, "estado") => p.estado = Upper(filtros.estado)
    /\ Fornecido(filtros, "cidade") => p.cidade = filtros.cidade
    /\ Fornecido(filtros, "bandeira") => p.bandeira = filtros.bandeira
    /\ \A k \in FiltrosDePreco \cap DOMAIN filtros :
         PrecoAte(p, CampoDoPreco(k), filtros[k])

\* C9: without sorting, buscar_postos_filtros returns, truncated to the
\* limit, exactly the snapshot's records that satisfy all the filters
\* provided (a maximum price is inclusive, an absent filter constrains
\* nothing).
C9_FiltrosExatos ==
    (ret.op = "filtros" /\ "ordenar_por" \notin DOMAIN ret.filtros) =>
        /\ ret.erro = ""
        /\ LET Passa(p) == Satisfaz(p, ret.filtros)
           IN  ret.valor = Slice(SelectSeq(cache.dados_json.postos, Passa), ret.limite)

\* C10: under a maximum-price filter the query completes normally, and
\* every record it returns has a price for that fuel at or below the
\* maximum: a record whose price is unavailable (absent, None, '' or
\* 'N/A') is left out.
C10_PrecoIndisponivelExcluido ==
    (ret.op = "filtros" /\ "ordenar_por" \notin DOMAIN ret.filtros) =>
        \A k \in FiltrosDePreco \cap DOMAIN ret.filtros :
            /\ ret.erro = ""
            /\ \A i \in DOMAIN ret.valor :
                 PrecoAte(ret.valor[i], CampoDoPreco(k), ret.filtros[k])

\* whether a point of a batch is a mapping with a number under 'lat' and
\* under 'lon'
PontoBemFormado(ponto) ==
    /\ ponto.py = "dict"
    /\ Get(ponto.d, "lat", PyNone).py = "float"
    /\ Get(ponto.d, "lon", PyNone).py = "float"

\* what a caller of buscar_postos_proximidade_rtree at a well-formed point
\* of the batch in ret reads, on the snapshot the batch ran on
Avulsa(ponto) ==
    LET r == buscar_postos_proximidade_rtree(cache, ponto.d.lat.v, ponto.d.lon.v,
                                             ret.raio_km, ret.limite)
    IN  Valores(r.lista, r.cache.dados_json.postos_por_id)

\* C6: the entry a batch stores under index i equals (records, order,
\* distance attached to each record) what a standalone call of
\* buscar_postos_proximidade_rtree on points[i] returns on the same
\* snapshot, however the tasks interleave.
C6_LoteIgualAvulsa ==
    ret.op = "lote" =>
        \A i \in DOMAIN ret.valor :
            PontoBemFormado(ret.pontos[i + 1]) => ret.valor[i] = Avulsa(ret.pontos[i + 1])

\* C7: for a list of N >= 0 points, some of which may lack lat or lon,
\* buscar_postos_lote returns a map whose keys are exactly 0..N-1.
C7_LoteChavesExatas ==
    (ret.op = "lote" /\ \A i \in DOMAIN ret.pontos : ret.pontos[i].py = "dict") =>
        /\ ret.erro = ""
        /\ DOMAIN ret.valor = 0..(Len(ret.pontos) - 1)

\* C8: when a point of a batch is malformed (no mapping, lat or lon missing
\* or not a number), no exception reaches the caller, the index of the
\* point gets an empty result and every other index gets a result.
C8_FalhaParcialDoLote ==
    (ret.op = "lote" /\ \E i \in DOMAIN ret.pontos : ~PontoBemFormado(ret.pontos[i])) =>
        /\ ret.erro = ""
        /\ \A i \in DOMAIN ret.pontos :
             /\ (i - 1) \in DOMAIN ret.valor
             /\ ~PontoBemFormado(ret.pontos[i]) => ret.valor[i - 1] = <<>>

\* C3: whenever a query is reading the cache, all the components it can
\* read (dados_json, rtree_index, grid_index, kd_tree_data, total_postos)
\* come from one build, also while inicializar_cache runs and after a
\* reload in which a component failed to load.
C3_LeitorVeUmSoBuild ==
    (\E k \in DOMAIN tarefas : tarefas[k].pc \in {"inicio", "laco"}) =>
        CacheCoerente(cache)

\* C4: a radius query called before a reload begins reads, in all its
\* steps, the snapshot that was active when it was called: the index it
\* probes and every postos_por_id it resolves an id against are of that
\* build.
C4_ConsultaUsaUmSnapshot ==
    \A k \in DOMAIN tarefas :
        tarefas[k].inicio.estavel =>
            (tarefas[k].indices_vistos \cup tarefas[k].json_vistos)
                \subseteq {tarefas[k].inicio.build}

\* the price fields of a record
CamposDePreco == {"preco_gasolina", "preco_alcool", "preco_diesel"}

\* whether no price of the active snapshot is a string
SemPrecoTexto ==
    \A i \in DOMAIN cache.dados_json.postos :
        \A campo \in CamposDePreco : cache.dados_json.postos[i][campo].py # "str"

\* the rank of a record in an ascending order of the price campo with the
\* unavailable prices (absent, None) last
OrdemDoPreco(p, campo) ==
    IF campo \in DOMAIN p /\ p[campo].py = "float" THEN p[campo].v ELSE 99999900

\* C11: asked to sort by a price field, buscar_postos_filtros completes
\* normally and returns the records in ascending order of that price, the
\* records whose price is absent or None after all the priced ones.
C11_OrdenadoPorPreco ==
    (ret.op = "filtros" /\ "ordenar_por" \in DOMAIN ret.filtros /\ SemPrecoTexto) =>
        /\ ret.erro = ""
        /\ \A k \in DOMAIN ret.valor :
             k + 1 \in DOMAIN ret.valor =>
               OrdemDoPreco(ret.valor[k], ret.filtros.ordenar_por)
                 <= OrdemDoPreco(ret.valor[k + 1], ret.filtros.ordenar_por)

\* C12: the text search returns the first `limit` of the records whose
\* nome, endereco, bairro or cidade contains the lower-cased query, in the
\* order the snapshot was built with (the order of the file the server
\* loaded), also after attribute queries have run on the snapshot.
C12_BuscaNaOrdemDoSnapshot ==
    (ret.op = "busca" /\ ret.q # "") =>
        LET Casa(p) == CasaComTexto(p, Lower(ret.q))
        IN  /\ ret.erro = ""
            /\ IdsDe(ret.valor) = IdsDe(Slice(SelectSeq(disco.json.postos, Casa), ret.limite))

\* the sources an output record of the consolidation was built from
OrigemDe(unico) == IF "fontes" \in DOMAIN unico THEN unico.fontes ELSE {unico.fonte}

\* the grid cell of a scraped record whose coordinates parse
CelulaDe(posto) ==
    << TruncDiv(posto.latitude.v, 10000), TruncDiv(posto.longitude.v, 10000) >>

\* whether a scraped record has a place on the grid
TemCelula(posto) ==
    /\ posto.latitude.py = "float"
    /\ posto.longitude.py = "float"
    /\ ~(posto.latitude.v = 0 /\ posto.longitude.v = 0)

\* whether two scraped records lie in one cell with latitudes and
\* longitudes at most the threshold apart
Similares(a, b) ==
    /\ TemCelula(a) /\ TemCelula(b)
    /\ CelulaDe(a) = CelulaDe(b)
    /\ Abs(a.latitude.v - b.latitude.v) <= 5000
    /\ Abs(a.longitude.v - b.longitude.v) <= 5000

\* whether the output holds exactly one record built from a or from b, and
\* that record lists the sources of both
NumSoMesclado(valor, a, b) ==
    /\ Cardinality({ k \in DOMAIN valor : OrigemDe(valor[k]) \cap {a.fonte, b.fonte} # {} }) = 1
    /\ \E k \in DOMAIN valor :
         "fontes" \in DOMAIN valor[k] /\ {a.fonte, b.fonte} \subseteq valor[k].fontes

\* C13: two input records of one cell whose latitudes and longitudes each
\* differ by at most the threshold come out of deduplicar_por_proximidade
\* as exactly one record, whose 'fontes' holds the 'fonte' of both.
C13_SimilaresMesclados ==
    ret.op = "deduplicar" =>
        \A i, j \in DOMAIN ret.postos :
            (i < j /\ Similares(ret.postos[i], ret.postos[j])) =>
                NumSoMesclado(ret.valor, ret.postos[i], ret.postos[j])

\* the records of postos that a chain of similar records links to those of S
RECURSIVE Fecho(_, _)
Fecho(postos, S) ==
    LET mais == S \cup { j \in DOMAIN postos : \E i \in S : Similares(postos[i], postos[j]) }
    IN  IF mais = S THEN S ELSE Fecho(postos, mais)

\* C15: within a cell the merge groups are the connected components of
\* similarity: records linked by a chain of similar records come out as
\* one record, whatever the order of the input.
C15_GruposSaoComponentes ==
    ret.op = "deduplicar" =>
        \A i, j \in DOMAIN ret.postos :
            (i < j /\ TemCelula(ret.postos[i]) /\ j \in Fecho(ret.postos, {i})) =>
                NumSoMesclado(ret.valor, ret.postos[i], ret.postos[j])

\* C16: every output record of deduplicar_por_proximidade is built only
\* from input records of one grid cell.
C16_SoMesclaNaMesmaCelula ==
    ret.op = "deduplicar" =>
        \A k \in DOMAIN ret.valor :
            \A i, j \in DOMAIN ret.postos :
                {ret.postos[i].fonte, ret.postos[j].fonte} \subseteq OrigemDe(ret.valor[k]) =>
                    /\ TemCelula(ret.postos[i]) /\ TemCelula(ret.postos[j])
                    /\ CelulaDe(ret.postos[i]) = CelulaDe(ret.postos[j])

\* C16 witness: two records 0.01 degree apart in neighbouring cells were
\* consolidated and came out as two records.
C16_Witness ==
    /\ ret.op = "deduplicar"
    /\ \E i, j \in DOMAIN ret.postos :
         /\ ret.postos[i].fonte = "ANP" /\ ret.postos[j].fonte = "Waze"
         /\ CelulaDe(ret.postos[i]) # CelulaDe(ret.postos[j])
         /\ Abs(ret.postos[i].latitude.v - ret.postos[j].latitude.v) <= 5000
    /\ \A k \in DOMAIN ret.valor : ~({"ANP", "Waze"} \subseteq OrigemDe(ret.valor[k]))
    /\ \E k \in DOMAIN ret.valor : "ANP" \in OrigemDe(ret.valor[k])
    /\ \E k \in DOMAIN ret.valor : "Waze" \in OrigemDe(ret.valor[k])

\* whether a scraped or merged record has a price for the fuel
PrecoDisponivel(p, campo) ==
    /\ campo \in DOMAIN p
    /\ p[campo].py # "NoneType"
    /\ ~(p[campo].py = "str" /\ p[campo].s \in {"", "N/A"})

\* the data_coleta of a record, the least one when it has none
DataDe(p) == IF "data_coleta" \in DOMAIN p THEN p.data_coleta ELSE 0

PrecosColetados == { "preco_gasolina", "preco_alcool", "preco_diesel", "preco_gnv" }

\* the orders of the members of a group that are descending in data_coleta
OrdensPorData(postos) ==
    { o \in [DOMAIN postos -> DOMAIN postos] :
        /\ \A i, j \in DOMAIN postos : i # j => o[i] # o[j]
        /\ \A k \in DOMAIN postos :
             k + 1 \in DOMAIN postos => DataDe(postos[o[k]]) >= DataDe(postos[o[k + 1]]) }

\* whether valor is the merge of the group postos taken in the order o:
\* the first is the base
MesclaNaOrdem(postos, o, valor) ==
    LET base == postos[o[1]]
        Doadores(campo) == { k \in 2..Len(postos) : PrecoDisponivel(postos[o[k]], campo) }
        Primeiro(campo) == CHOOSE k \in Doadores(campo) : \A j \in Doadores(campo) : k <= j
    IN  /\ (DOMAIN valor) \ PrecosColetados = ((DOMAIN base) \ PrecosColetados) \cup {"fontes"}
        /\ \A k \in (DOMAIN base) \ PrecosColetados : valor[k] = base[k]
        /\ \A campo \in PrecosColetados :
             IF PrecoDisponivel(base, campo)
             THEN campo \in DOMAIN valor /\ valor[campo] = base[campo]
             ELSE IF Doadores(campo) # {}
             THEN campo \in DOMAIN valor /\ valor[campo] = postos[o[Primeiro(campo)]][campo]
             ELSE ~PrecoDisponivel(valor, campo)
        /\ valor.fontes = { postos[i].fonte : i \in DOMAIN postos }

\* C14: for a group of two or more records, mesclar_postos_similares
\* returns the non-price fields of a member with the greatest data_coleta
\* (the base), each price of the base when it has it, else of the most
\* recent other member that has it, else no price; 'fontes' is the union
\* of the 'fonte' of all members.
C14_PoliticaDeMescla ==
    (ret.op = "mesclar" /\ Len(ret.postos) >= 2) =>
        \E o \in OrdensPorData(ret.postos) : MesclaNaOrdem(ret.postos, o, ret.valor)

\* C14 witness: a group was merged whose base lacked a price that an older
\* member had, and the merged record carries the older member's price.
C14_Witness ==
    /\ ret.op = "mesclar"
    /\ Len(ret.postos) >= 2
    /\ \E i, j \in DOMAIN ret.postos : \E campo \in PrecosColetados :
         /\ \A k \in DOMAIN ret.postos : k # i => DataDe(ret.postos[i]) > DataDe(ret.postos[k])
         /\ ~PrecoDisponivel(ret.postos[i], campo)
         /\ PrecoDisponivel(ret.postos[j], campo)
         /\ ret.valor.nome = ret.postos[i].nome
         /\ ret.valor[campo] = ret.postos[j][campo]

\* the ids a sequence of ids holds
IdsDaLista(ids) == { ids[i] : i \in DOMAIN ids }

\* the ids the lists of an index {v: [ids]} hold
IdsListados(indice) == UNION { IdsDaLista(indice[v]) : v \in DOMAIN indice }

\* C17: after a build over a validated record set, the ids tagged in the
\* R-tree, the ids listed in the grid cells, the keys of the grid's
\* postos_ids, the ids of the coordinate index and the keys of
\* postos_por_id are the same set, and every id listed in
\* postos_por_estado, postos_por_cidade or postos_por_bandeira is a key of
\* postos_por_id.
C17_MesmosIdsEmTodasAsEstruturas ==
    ret.op = "otimizar" =>
        LET a == ret.valor
            noRtree == { a.rtree.entradas[i].object : i \in DOMAIN a.rtree.entradas }
            porId == DOMAIN a.json.postos_por_id
        IN  /\ IdsListados(a.grid.grid) = noRtree
            /\ DOMAIN a.grid.postos_ids = noRtree
            /\ IdsDaLista(a.kd.ids) = noRtree
            /\ porId = noRtree
            /\ IdsListados(a.json.postos_por_estado) \subseteq porId
            /\ IdsListados(a.json.postos_por_cidade) \subseteq porId
            /\ IdsListados(a.json.postos_por_bandeira) \subseteq porId

\* what a coordinate of an input record reads as: [ok, v]; an absent
\* coordinate reads as zero
LeituraDaCoordenada(posto, campo) ==
    IF campo \notin DOMAIN posto THEN [ ok |-> TRUE, v |-> 0 ]
    ELSE IF posto[campo].py = "float" THEN [ ok |-> TRUE, v |-> posto[campo].v ]
    ELSE IF posto[campo] = PyStr("-23.55") THEN [ ok |-> TRUE, v |-> -2355000 ]
    ELSE IF posto[campo] = PyStr("-46.63") THEN [ ok |-> TRUE, v |-> -4663000 ]
    ELSE IF posto[campo] \in { PyStr("0"), PyStr("0.0") } THEN [ ok |-> TRUE, v |-> 0 ]
    ELSE [ ok |-> FALSE, v |-> 0 ]

\* whether an input record is to be kept: its coordinates parse and are not
\* both zero
Aceitavel(posto) ==
    /\ LeituraDaCoordenada(posto, "latitude").ok
    /\ LeituraDaCoordenada(posto, "longitude").ok
    /\ ~( LeituraDaCoordenada(posto, "latitude").v = 0
          /\ LeituraDaCoordenada(posto, "longitude").v = 0 )

\* the positions of the input records to be kept, in order
Aceitos(postos) ==
    SelectSeq([ i \in DOMAIN postos |-> i ], LAMBDA i : Aceitavel(postos[i]))

\* C18: validar_dados partitions its input: the valid records and the count
\* of invalid ones add up to the input, the valid records are, in order,
\* exactly the input records whose coordinates parse and are not both zero.
C18_ValidacaoParticiona ==
    ret.op = "validar" =>
        LET validos == ret.valor.postos_validos
            aceitos == Aceitos(ret.postos)
        IN  /\ Len(validos) + ret.valor.postos_invalidos = Len(ret.postos)
            /\ Len(validos) = Len(aceitos)
            /\ \A k \in DOMAIN validos : validos[k].nome = ret.postos[aceitos[k]].nome

\* C18 witness: a batch was validated in which a record with both
\* coordinates zero and a record with an unparsable coordinate were counted
\* invalid and a record with only its latitude zero was kept.
C18_Witness ==
    /\ ret.op = "validar"
    /\ ret.valor.postos_invalidos = 2
    /\ Len(ret.valor.postos_validos) = 1
    /\ ret.valor.postos_validos[1].latitude = 0
    /\ ret.valor.postos_validos[1].longitude # 0
    /\ \E i \in DOMAIN ret.postos :
         /\ "latitude" \in DOMAIN ret.postos[i]
         /\ ret.postos[i].latitude = PyStr("abc")
    /\ \E i \in DOMAIN ret.postos :
         /\ "latitude" \in DOMAIN ret.postos[i]
         /\ ret.postos[i].latitude = PyFloat(0)
         /\ ret.postos[i].longitude = PyStr("0.0")

\* the input record a valid record comes from
OrigemDoValido(k) == ret.postos[Aceitos(ret.postos)[k]]

\* the decimal value (centavos) an input price is the writing of
ValorDecimal(valor) ==
    CASE valor = PyStr("5,10") -> 510
      [] valor = PyStr("3,50") -> 350
      [] valor = PyStr("3.50") -> 350
      [] valor.py = "float" -> valor.v

\* whether an input price is a number or the writing of one
TemValorDecimal(valor) ==
    valor.py = "float" \/ valor \in { PyStr("5,10"), PyStr("3,50"), PyStr("3.50") }

\* whether an input record has no price for the fuel
PrecoAusente(posto, campo) ==
    campo \notin DOMAIN posto \/ posto[campo] \in { PyNone, PyStr(""), PyStr("N/A") }

\* C19: after validar_dados every price of a valid record whose input was
\* a number or a decimal string is that number, and the prices whose input
\* was missing, None, empty or 'N/A' all are the one value None.
C19_PrecosNormalizados ==
    ret.op = "validar" =>
        \A k \in DOMAIN ret.valor.postos_validos : \A campo \in PrecosColetados :
            LET origem == OrigemDoValido(k)
                saida == ret.valor.postos_validos[k][campo]
            IN  IF PrecoAusente(origem, campo) THEN saida = PyNone
                ELSE TemValorDecimal(origem[campo]) =>
                         saida = PyFloat(ValorDecimal(origem[campo]))

\* C20: after validar_dados over a batch whose explicit ids are pairwise
\* distinct, the ids of the valid records are pairwise distinct.
C20_IdsDistintos ==
    ( /\ ret.op = "validar"
      /\ \A i, j \in DOMAIN ret.postos :
           ( i # j /\ "id" \in DOMAIN ret.postos[i] /\ "id" \in DOMAIN ret.postos[j] )
               => ret.postos[i].id # ret.postos[j].id )
    => \A k, l \in DOMAIN ret.valor.postos_validos :
           k # l => ret.valor.postos_validos[k].id # ret.valor.postos_validos[l].id

\* what a caller of the R-tree variant reads, called on the cache as it is
RespostaRtree(lat, lon, raio_km, limite) ==
    LET r == buscar_postos_proximidade_rtree(cache, lat, lon, raio_km, limite)
    IN  Valores(r.lista, r.cache.dados_json.postos_por_id)

\* what a caller of the grid variant reads, called on the cache as it is
RespostaGrid(lat, lon, raio_km, limite) ==
    LET r == buscar_postos_proximidade_grid(cache, lat, lon, raio_km, limite)
    IN  Valores(r.lista, r.cache.dados_json.postos_por_id)

\* C21: for every snapshot, query point, radius and limit the grid variant
\* and the R-tree variant return the same sequence of records.
C21_GridIgualRtree ==
    \A p \in PontosConsulta, raio_km \in Raios, limite \in Limites :
        RespostaGrid(p.lat, p.lon, raio_km, limite) = RespostaRtree(p.lat, p.lon, raio_km, limite)

\* the positions of the snapshot records within the radius of the point
NoCirculo(lat, lon, raio_km) ==
    { i \in DOMAIN cache.dados_json.postos :
        calcular_distancia(lat, lon, cache.dados_json.postos[i].latitude,
                           cache.dados_json.postos[i].longitude) <= raio_km * 1000 }

\* the ids of the records of an answer
IdsDaResposta(valor) == { valor[i].id : i \in DOMAIN valor }

\* C22: the R-tree query is monotone in the radius: for radii r1 <= r2 and
\* at most `limite` snapshot records within r2, every record returned with
\* r1 is returned with r2.
C22_MonotonaNoRaio ==
    \A p \in PontosConsulta, limite \in Limites, r1 \in Raios, r2 \in Raios :
        ( r1 <= r2 /\ Cardinality(NoCirculo(p.lat, p.lon, r2)) <= limite )
            => IdsDaResposta(RespostaRtree(p.lat, p.lon, r1, limite))
                 \subseteq IdsDaResposta(RespostaRtree(p.lat, p.lon, r2, limite))

\* the routes whose answer in ret tells whether a snapshot was loaded when
\* the request came
RotasDeConsulta == { "proximos", "rota_filtros", "rota_busca", "metadados" }

\* whether the request in ret has its required parameters
BemFormada ==
    CASE ret.op = "proximos" -> ret.chamou
      [] ret.op = "rota_busca" -> ret.q # ""
      [] OTHER -> TRUE

\* whether no record of the published build matches the request in ret
NadaCasa ==
    LET postos == disco.json.postos
    IN  CASE ret.op = "proximos" ->
               \A i \in DOMAIN postos :
                   calcular_distancia(ret.lat, ret.lon, postos[i].latitude,
                                      postos[i].longitude) > ret.passados.raio * 1000
          [] ret.op = "rota_filtros" ->
               \A i \in DOMAIN postos : ~Satisfaz(postos[i], ret.filtros)
          [] ret.op = "rota_busca" ->
               \A i \in DOMAIN postos : ~CasaComTexto(postos[i], Lower(ret.q))
          [] OTHER -> FALSE

\* C23: while no snapshot is loaded every query route (nearby, filter,
\* batch, text search, metadata) answers a well-formed request with the
\* data-unavailable error and not with a successful empty result; once a
\* snapshot is loaded, a request that matches nothing is answered with a
\* successful empty result.
C23_SemSnapshotErro ==
    /\ ( ret.op \in RotasDeConsulta /\ ~ret.carregado /\ BemFormada ) => ret.status = 500
    /\ ( ret.op = "lote" /\ cache = CacheVazio ) => ret.erro # ""
    /\ ( ret.op \in RotasDeConsulta /\ ret.carregado /\ BemFormada /\ NadaCasa )
           => ( ret.status = 200 /\ ret.valor = <<>> )

\* C24: for every request to the nearby route that reaches the query,
\* whatever numeric radius and limit the caller sent, the radius passed to
\* the query lies in [0, 50] and the limit passed lies in [1, 100].
C24_ParametrosLimitados ==
    ( ret.op = "proximos" /\ ret.chamou ) =>
        /\ 0 <= ret.passados.raio /\ ret.passados.raio <= 50
        /\ 1 <= ret.passados.limite /\ ret.passados.limite <= 100

\* the cache after the files on disk are loaded once more
Recarregado == inicializar_cache(cache, disco, carregador.cargas + 1)

\* what the callers of the queries read when they run on the cache c
RespostasDe(c) ==
    [ proximos |-> [ p \in PontosConsulta, raio_km \in Raios, limite \in Limites |->
                       LET r == buscar_postos_proximidade_rtree(c, p.lat, p.lon, raio_km, limite)
                       IN  [ erro |-> r.erro,
                             valor |-> Valores(r.lista, r.cache.dados_json.postos_por_id) ] ],
      filtros |-> [ args \in FiltrosEntrada, limite \in Limites |->
                      LET r == api_postos_filtros(c, args, limite)
                      IN  [ status |-> r.status, valor |-> r.valor ] ],
      busca |-> [ q \in TextosDeBusca, limite \in Limites |-> api_postos_busca(c, q, limite) ] ]

\* C25: loading the same build once more is idempotent: when the cache
\* holds the build that is on disk, with queries possibly run since it was
\* loaded, every query gives the same result after another
\* inicializar_cache as without it.
C25_CargaIdempotente ==
    ( ret.op = "nenhuma" /\ lote.pc = "parado" /\ cache.dados_json.build # 0
      /\ disco.json.build = cache.dados_json.build )
        => RespostasDe(Recarregado) = RespostasDe(cache)

\* (floor(lat / cellSize), floor(lon / cellSize))
ChavePiso(lat, lon, tamanho_celula) == << lat \div tamanho_celula, lon \div tamanho_celula >>

\* C26: the grid cell key of every record, negative coordinates included,
\* is (floor(lat/cellSize), floor(lon/cellSize)) in the index builder, in
\* the grid query and in the deduplication partition.
C26_ChaveEhPiso ==
    /\ ret.op = "otimizar" =>
         \A i \in DOMAIN ret.validos :
             LET chave == ChavePiso(ret.validos[i].latitude, ret.validos[i].longitude,
                                    ret.valor.grid.tamanho_celula)
             IN  /\ chave \in DOMAIN ret.valor.grid.grid
                 /\ ret.validos[i].id \in IdsDaLista(ret.valor.grid.grid[chave])
    /\ \A p \in PontosConsulta :
         CelulasVisitadas(p.lat, p.lon, 0, TamanhoCelula)[5]
             = ChavePiso(p.lat, p.lon, TamanhoCelula)
    /\ \A posto \in Coletados :
         EntraNoGrid(posto) =>
             ChaveDedup(posto) = ChavePiso(Coordenada(posto, "latitude").v,
                                           Coordenada(posto, "longitude").v,
                                           TamanhoCelulaDedup)

\* C27: the cells buscar_postos_proximidade_grid enumerates cover the whole
\* search circle: when at most `limite` snapshot records lie within the
\* radius of the query point, the grid query returns every one of them.
C27_GridCobreOCirculo ==
    ( /\ ret.op = "grid"
      /\ ret.erro = ""
      /\ Cardinality(NoCirculo(ret.lat, ret.lon, ret.raio_km)) <= ret.limite )
        => { cache.dados_json.postos[i].id : i \in NoCirculo(ret.lat, ret.lon, ret.raio_km) }
             \subseteq IdsDaResposta(ret.valor)

\* the positions of the input records deduplicar_por_proximidade puts in
\* its grid
Validos(postos) == { i \in DOMAIN postos : EntraNoGrid(postos[i]) }

\* the positions of the output records the input record i went into
GruposDe(i) == { k \in DOMAIN ret.valor : ret.postos[i].fonte \in OrigemDe(ret.valor[k]) }

\* C28: deduplicar_por_proximidade partitions its valid input: every input
\* record with parsable, not-both-zero coordinates is in exactly one merge
\* group, every output record is the record of one non-empty group of valid
\* input records, there are no more output records than valid input
\* records, and mesclar_postos_similares leaves the records it was given as
\* they were.
C28_DedupParticiona ==
    /\ ret.op = "deduplicar" =>
         /\ \A i \in Validos(ret.postos) : Cardinality(GruposDe(i)) = 1
         /\ \A k \in DOMAIN ret.valor :
              /\ OrigemDe(ret.valor[k]) # {}
              /\ OrigemDe(ret.valor[k])
                   \subseteq { ret.postos[i].fonte : i \in Validos(ret.postos) }
         /\ Len(ret.valor) <= Cardinality(Validos(ret.postos))
    /\ ret.op = "mesclar" => ret.depois = ret.postos

\* C28 witness: a consolidation with a record that stays out of the grid
\* and a group of two records
C28_Witness ==
    /\ ret.op = "deduplicar"
    /\ Validos(ret.postos) # DOMAIN ret.postos
    /\ \E k \in DOMAIN ret.valor : Cardinality(OrigemDe(ret.valor[k])) >= 2
    /\ Len(ret.valor) < Cardinality(Validos(ret.postos))

\* two output records that deduplicar_por_proximidade's own criterion calls
\* duplicates: both in the grid, in the same cell, within the threshold
DuplicadosNaSaida(valor) ==
    { par \in (DOMAIN valor) \X (DOMAIN valor) :
        /\ par[1] < par[2]
        /\ EntraNoGrid(valor[par[1]]) /\ EntraNoGrid(valor[par[2]])
        /\ ChaveDedup(valor[par[1]]) = ChaveDedup(valor[par[2]])
        /\ Proximos(valor[par[1]], valor[par[2]]) }

\* C29: the output of deduplicar_por_proximidade has no two records in the
\* same cell within the threshold of each other, and running the function
\* again on its output merges nothing: it returns as many records.
C29_SaidaSemDuplicados ==
    ret.op = "deduplicar" =>
        /\ DuplicadosNaSaida(ret.valor) = {}
        /\ Len(deduplicar_por_proximidade(ret.valor)) = Len(ret.valor)

\* the requests a call of safe_request made so far
Pedidos(t) == Len(t.desfechos)

\* what C30 says of a call that returned or raised, t its record: attempt
\* counts from 0, as the loop variable does
RetornoCerto(t) ==
    /\ Pedidos(t) <= t.max_retries
    /\ \A i \in DOMAIN t.desfechos :
         t.desfechos[i] = "ok" =>
           /\ i = Len(t.desfechos)
           /\ t.excecao = ""
           /\ t.valor = [ py |-> "Response", tentativa |-> i - 1 ]
    /\ ( t.excecao = "" /\ t.valor = PyNone )
         <=> ( /\ Pedidos(t) = t.max_retries
               /\ \A i \in DOMAIN t.desfechos : t.desfechos[i] \in ErrosDeRequisicao )
    /\ Len(t.esperas) = Cardinality({ i \in DOMAIN t.desfechos :
                                        /\ t.desfechos[i] \in ErrosDeRequisicao
                                        /\ i # t.max_retries })
    /\ \A k \in DOMAIN t.esperas :
         t.esperas[k] = IF k = 1 THEN 1 ELSE 2 * t.esperas[k - 1]

\* the state part of C30
PedidoLimitado ==
    /\ \A k \in DOMAIN tarefas :
         tarefas[k].max_retries >= 1 => Pedidos(tarefas[k]) <= tarefas[k].max_retries
    /\ ( ret.op = "safe_request" /\ ret.max_retries >= 1 ) => RetornoCerto(ret)

\* C30: safe_request with max_retries >= 1 always terminates, after at most
\* max_retries requests; it returns the response of the first request that
\* succeeds and makes no other request after it; it returns None if and
\* only if all max_retries requests failed with a request error; after each
\* failed request but the last it waits 2^attempt seconds (1, 2, 4, ...).
C30_PedidoTermina ==
    /\ []PedidoLimitado
    /\ (tarefas # <<>>) ~> (tarefas = <<>>)

\* C30 witness: a call with max_retries >= 2 whose requests all failed
\* returned None, having waited between them
C30_Witness ==
    /\ ret.op = "safe_request"
    /\ ret.max_retries >= 2
    /\ ret.excecao = "" /\ ret.valor = PyNone
    /\ Len(ret.desfechos) = ret.max_retries
    /\ Len(ret.esperas) = ret.max_retries - 1

=============================================================================
